---- MODULE Spec2Model ----
(***************************************************************************)
(* Safe query execution of the conversational analytics assistant:         *)
(*   tools/bigquery_tools.py  guardrails, dry-run, execute_sql             *)
(*   agents/loop_runner.py    ChatRunner.answer and its one-month fallback *)
(*   agents/sql_agent.py      build_sql_from_plan                          *)
(* SQL text is a sequence of one-character strings, so that the regular    *)
(* expressions and the string operations of the code are computed on the   *)
(* characters, as Python computes them.                                    *)
(***************************************************************************)
EXTENDS Naturals, Integers, Sequences, FiniteSets, TLC

\* ------------------------------------------------------------------ text

\* The backquote cannot be written inside a TLA+ string: this value stands
\* for the one character U+0060.
Bq == "bq"

UpperLetters == <<"A","B","C","D","E","F","G","H","I","J","K","L","M",
                  "N","O","P","Q","R","S","T","U","V","W","X","Y","Z">>
LowerLetters == <<"a","b","c","d","e","f","g","h","i","j","k","l","m",
                  "n","o","p","q","r","s","t","u","v","w","x","y","z">>
Digits == {"0","1","2","3","4","5","6","7","8","9"}
Letters == {UpperLetters[i] : i \in 1..26} \cup {LowerLetters[i] : i \in 1..26}

\* Python's \w, \s and \d on the characters the model uses.
WordChars == Letters \cup Digits \cup {"_"}
SpaceChars == {" ", "\n", "\t", "\r"}

\* str.upper() and str.lower(), one character at a time.
UpperChar(c) ==
  IF \E i \in 1..26 : LowerLetters[i] = c
  THEN UpperLetters[CHOOSE i \in 1..26 : LowerLetters[i] = c] ELSE c
LowerChar(c) ==
  IF \E i \in 1..26 : UpperLetters[i] = c
  THEN LowerLetters[CHOOSE i \in 1..26 : UpperLetters[i] = c] ELSE c
Upper(s) == [i \in 1..Len(s) |-> UpperChar(s[i])]
Lower(s) == [i \in 1..Len(s) |-> LowerChar(s[i])]

\* s[i..] starts with w (str.startswith at an offset).
StartsAt(s, i, w) ==
  /\ i + Len(w) - 1 <= Len(s)
  /\ \A k \in 1..Len(w) : s[i + k - 1] = w[k]
\* The same, ignoring case (re.IGNORECASE on a literal).
StartsAtCI(s, i, w) ==
  /\ i + Len(w) - 1 <= Len(s)
  /\ \A k \in 1..Len(w) : UpperChar(s[i + k - 1]) = UpperChar(w[k])
\* w in s
Contains(s, w) == \E i \in 1..(Len(s) + 1) : StartsAt(s, i, w)

\* \b at the gap before position i (between s[i-1] and s[i]).
WordBoundary(s, i) ==
  LET before == i > 1 /\ i - 1 <= Len(s) /\ s[i - 1] \in WordChars
      after  == i >= 1 /\ i <= Len(s) /\ s[i] \in WordChars
  IN before # after

\* The first position >= i that does not hold a character of the class
\* (Len(s)+1 when the run reaches the end): the end of a greedy [class]* at i.
SkipIn(s, i, class) ==
  CHOOSE j \in i..(Len(s) + 1) :
    /\ j = Len(s) + 1 \/ s[j] \notin class
    /\ \A k \in i..(j - 1) : s[k] \in class
SkipSpaces(s, i) == SkipIn(s, i, SpaceChars)

\* str.rstrip() and str.strip()
\* s without its trailing characters of the class.
RStripIn(s, class) ==
  SubSeq(s, 1, CHOOSE j \in 0..Len(s) :
                 /\ j = 0 \/ s[j] \notin class
                 /\ \A k \in (j + 1)..Len(s) : s[k] \in class)
RStrip(s) == RStripIn(s, SpaceChars)
LStrip(s) == SubSeq(s, SkipSpaces(s, 1), Len(s))
Strip(s) == RStrip(LStrip(s))
\* str.rstrip(";")
RStripSemicolons(s) == RStripIn(s, {";"})

\* "sep".join(parts)
RECURSIVE Join(_, _)
Join(sep, parts) ==
  IF Len(parts) = 0 THEN <<>>
  ELSE IF Len(parts) = 1 THEN parts[1]
  ELSE parts[1] \o sep \o Join(sep, Tail(parts))

\* A linear regular expression is a sequence of items, matched left to
\* right.  None of the patterns of the code needs backtracking: every
\* greedy run is followed by an item that cannot match inside the run.
\*   Lit(w), LitCI(w)   a literal, the second under re.IGNORECASE
\*   Run(class)         [class]+, greedy: Ws is \s+, Ds is \d+
\*   Dn(n)              \d{n}
\*   Wb                 \b
\*   Id                 [A-Za-z_][A-Za-z0-9_]*
\*   End                $
Lit(w) == [k |-> "lit", s |-> w, ci |-> FALSE]
LitCI(w) == [k |-> "lit", s |-> w, ci |-> TRUE]
Run(class) == [k |-> "run", class |-> class]
Ws == Run(SpaceChars)
Ds == Run(Digits)
Dn(n) == [k |-> "dn", n |-> n]
Wb == [k |-> "wb"]
Id == [k |-> "id"]
End == [k |-> "end"]

\* The position after the match of pattern items j.. at position i of s,
\* or 0 when there is no match there (re.match at an offset).
RECURSIVE MatchEnd(_, _, _, _)
MatchEnd(s, i, pat, j) ==
  IF j > Len(pat) THEN i
  ELSE LET it == pat[j] IN
    CASE it.k = "lit" ->
           IF (IF it.ci THEN StartsAtCI(s, i, it.s) ELSE StartsAt(s, i, it.s))
           THEN MatchEnd(s, i + Len(it.s), pat, j + 1) ELSE 0
      [] it.k = "run" ->
           IF SkipIn(s, i, it.class) > i
           THEN MatchEnd(s, SkipIn(s, i, it.class), pat, j + 1) ELSE 0
      [] it.k = "dn" ->
           IF i + it.n - 1 <= Len(s) /\ \A k \in 0..(it.n - 1) : s[i + k] \in Digits
           THEN MatchEnd(s, i + it.n, pat, j + 1) ELSE 0
      [] it.k = "wb" ->
           IF WordBoundary(s, i) THEN MatchEnd(s, i, pat, j + 1) ELSE 0
      [] it.k = "id" ->
           IF i <= Len(s) /\ (s[i] \in Letters \/ s[i] = "_")
           THEN MatchEnd(s, SkipIn(s, i, WordChars), pat, j + 1) ELSE 0
      [] it.k = "end" ->
           IF i = Len(s) + 1 \/ (i = Len(s) /\ s[i] = "\n")
           THEN MatchEnd(s, i, pat, j + 1) ELSE 0

\* re.search(pat, s) is not None
Search(s, pat) == \E i \in 1..(Len(s) + 1) : MatchEnd(s, i, pat, 1) # 0

\* The least element of a non-empty set of positions.
MinOf(S) == CHOOSE j \in S : \A k \in S : j <= k

\* re.sub(pat, repl, s): every non-overlapping match, left to right.
\* starts: the positions where pat matches; the scan resumes after a match.
RECURSIVE SubFrom(_, _, _, _, _)
SubFrom(s, i, pat, repl, starts) ==
  LET next == {j \in starts : j >= i} IN
  IF next = {} THEN SubSeq(s, i, Len(s))
  ELSE LET j == MinOf(next) IN
       SubSeq(s, i, j - 1) \o repl \o SubFrom(s, MatchEnd(s, j, pat, 1), pat, repl, starts)
Sub(s, pat, repl) ==
  SubFrom(s, 1, pat, repl, {j \in 1..Len(s) : MatchEnd(s, j, pat, 1) > j})

\* re.sub(r"\s+", " ", s): one blank for every run of white space.
CollapseSpaces(s) ==
  LET t == [i \in 1..Len(s) |->
              IF s[i] \notin SpaceChars THEN s[i]
              ELSE IF i > 1 /\ s[i - 1] \in SpaceChars THEN "" ELSE " "]
  IN SelectSeq(t, LAMBDA c : c # "")

\* str(int): the decimal digits of a natural number.
DigitSeq == <<"0","1","2","3","4","5","6","7","8","9">>
RECURSIVE IntToText(_)
IntToText(n) ==
  IF n < 10 THEN <<DigitSeq[n + 1]>>
  ELSE IntToText(n \div 10) \o <<DigitSeq[(n % 10) + 1]>>

\* s.replace("`", "")
StripBackticks(s) == SelectSeq(s, LAMBDA c : c # Bq)
\* s.split(".")
\* dots: the positions of "." in s from position i on.
RECURSIVE SplitAt(_, _, _)
SplitAt(s, i, dots) ==
  IF dots = {} THEN <<SubSeq(s, i, Len(s))>>
  ELSE <<SubSeq(s, i, MinOf(dots) - 1)>>
         \o SplitAt(s, MinOf(dots) + 1, dots \ {MinOf(dots)})
SplitDot(s) == SplitAt(s, 1, {j \in 1..Len(s) : s[j] = "."})

\* -------------------------------------------------- config/settings.py

PROJECT_ID ==
  <<"g","o","-","c","x","b","-","b","c","x","-","d","a","t","a","9","-","d",
    "t","w","s","g","r","p","0","1">>
DATASET == <<"d","t","w","s","g","r","_","d","s","0","1">>
TABLE_BASE == <<"B","B","D","D","_","0","1","_","L","I","G","H","T">>
TABLA_BASE_FQN ==
  <<Bq>> \o PROJECT_ID \o <<".">> \o DATASET \o <<".">> \o TABLE_BASE \o <<Bq>>

ALLOWED_DATASETS == { PROJECT_ID \o <<".">> \o DATASET }
ALLOWED_TABLES == { PROJECT_ID \o <<".">> \o DATASET \o <<".">> \o TABLE_BASE }

MAX_ROWS_RETURNED == 200
LIMIT_DEFAULT == 200

REQUIRE_FQN_TABLE == TRUE
FORBIDDEN_KEYWORDS == <<
    <<"I","N","S","E","R","T">>,
    <<"U","P","D","A","T","E">>,
    <<"D","E","L","E","T","E">>,
    <<"M","E","R","G","E">>,
    <<"C","R","E","A","T","E">>,
    <<"D","R","O","P">>,
    <<"A","L","T","E","R">>,
    <<"T","R","U","N","C","A","T","E">>,
    <<"G","R","A","N","T">>,
    <<"R","E","V","O","K","E">>,
    <<"B","E","G","I","N">>,
    <<"C","O","M","M","I","T">>,
    <<"R","O","L","L","B","A","C","K">> >>
\* The setting with the wildcard check switched off.
SelectStarAllowed == FALSE
DISALLOW_SELECT_STAR == TRUE

\* ----------------------------------------------- tools/bigquery_tools.py

\* Byte counts exceed TLC's 32-bit integers (the threshold is 10 GiB), so a
\* byte count is [mib, rem]: mib * 1024 * 1024 + rem bytes, 0 <= rem < 2^20.
MiB == 1024 * 1024
BytesGT(a, b) == a.mib > b.mib \/ (a.mib = b.mib /\ a.rem > b.rem)

\* _ENV_MB: BQT_BYTES_THRESHOLD_MB is unset, settings.BYTES_THRESHOLD is None.
ENV_MB == 10240
BYTES_THRESHOLD == [mib |-> ENV_MB, rem |-> 0]

\* Exceptions: the Python class and which raise statement made it.
ValueError(what) == [type |-> "ValueError", what |-> what]
PermissionError(what) == [type |-> "PermissionError", what |-> what]
NoError == [type |-> "none", what |-> "none"]

\* ^\s*(SELECT|WITH) without the \b: a pattern that accepts SELECTED.
SelectWithPrefix(sql) ==
  \E w \in { <<"S","E","L","E","C","T">>, <<"W","I","T","H">> } :
     StartsAtCI(sql, SkipSpaces(sql, 1), w)

\* _SELECT_WITH_RE.search(sql): ^\s*(SELECT|WITH)\b, re.IGNORECASE
SELECT_WITH_RE(sql) ==
  \E w \in { <<"S","E","L","E","C","T">>, <<"W","I","T","H">> } :
     MatchEnd(sql, SkipSpaces(sql, 1), <<LitCI(w), Wb>>, 1) # 0

\* _LIMIT_RE: \blimit\s+\d+\b, re.IGNORECASE
LIMIT_RE == <<Wb, LitCI(<<"l","i","m","i","t">>), Ws, Ds, Wb>>

\* _FQN_RE at position i: (?:`?([\w-]+)\.([\w-]+)\.([\w$-]+)`?)
\* [end |-> position after the match or 0, ref |-> the three groups]
FqnChars == WordChars \cup {"-"}
FqnTableChars == WordChars \cup {"$", "-"}
\* i0: where the first group starts; e1, e2, e3: where the greedy groups end.
FqnGroups(s, i0, e1, e2, e3) ==
  IF /\ e1 > i0 /\ e1 <= Len(s) /\ s[e1] = "."
     /\ e2 > e1 + 1 /\ e2 <= Len(s) /\ s[e2] = "."
     /\ e3 > e2 + 1
  THEN [end |-> IF e3 <= Len(s) /\ s[e3] = Bq THEN e3 + 1 ELSE e3,
        ref |-> <<SubSeq(s, i0, e1 - 1), SubSeq(s, e1 + 1, e2 - 1),
                  SubSeq(s, e2 + 1, e3 - 1)>>]
  ELSE [end |-> 0, ref |-> <<>>]
FqnAt(s, i0) ==
  FqnGroups(s, i0,
            SkipIn(s, i0, FqnChars),
            SkipIn(s, SkipIn(s, i0, FqnChars) + 1, FqnChars),
            SkipIn(s, SkipIn(s, SkipIn(s, i0, FqnChars) + 1, FqnChars) + 1, FqnTableChars))
FQN_RE(s, i) == FqnAt(s, IF i <= Len(s) /\ s[i] = Bq THEN i + 1 ELSE i)

\* _extract_table_refs: _FQN_RE.findall(sql)
\* starts: the positions where _FQN_RE matches; matches do not overlap, so
\* the scan takes the first match at or after i and resumes at its end.
RECURSIVE ExtractFrom(_, _, _)
ExtractAt(s, m, starts) == <<m.ref>> \o ExtractFrom(s, m.end, starts)
ExtractFrom(s, i, starts) ==
  IF {j \in starts : j >= i} = {} THEN <<>>
  ELSE ExtractAt(s, FQN_RE(s, MinOf({j \in starts : j >= i})), starts)
extract_table_refs(sql) ==
  ExtractFrom(sql, 1, {j \in 1..Len(sql) : FQN_RE(sql, j).end # 0})

\* _has_count_only
CountOnly(s) ==
  /\ StartsAt(s, 1, <<"s","e","l","e","c","t"," ","c","o","u","n","t","(">>)
  /\ ~Contains(s, <<" ","g","r","o","u","p"," ","b","y"," ">>)
has_count_only(sql) == CountOnly(CollapseSpaces(Lower(Strip(sql))))

\* validate_sql_readonly: NoError when the statement is accepted.
\* any(kw in upper for kw in FORBIDDEN_KEYWORDS)
AnyForbidden(upper) ==
  \E k \in 1..Len(FORBIDDEN_KEYWORDS) : Contains(upper, FORBIDDEN_KEYWORDS[k])
validate_sql_readonly(sql) ==
  IF ~SELECT_WITH_RE(sql) THEN ValueError("NotReadOnly")
  ELSE IF AnyForbidden(Upper(sql)) THEN ValueError("ForbiddenOperation")
  ELSE IF DISALLOW_SELECT_STAR
          /\ Search(sql, <<LitCI(<<"s","e","l","e","c","t">>), Ws, Lit(<<"*">>)>>)
       THEN ValueError("WildcardProjectionDenied")
  ELSE NoError

\* The references as validate_allowlist reads them:
\* tuple(_strip_backticks(".".join(r)).split("."))
NormalizeRefs(found) ==
  [k \in 1..Len(found) |-> SplitDot(StripBackticks(Join(<<".">>, found[k])))]
allowlist_refs(sql) == NormalizeRefs(extract_table_refs(sql))

\* The first reference the loop of validate_allowlist rejects, or 0.
RefRejected(r) ==
  \/ (r[1] \o <<".">> \o r[2]) \notin ALLOWED_DATASETS
  \/ /\ ALLOWED_TABLES # {}
     /\ (r[1] \o <<".">> \o r[2] \o <<".">> \o r[3]) \notin ALLOWED_TABLES
\* A loop that looks at the first reference only.
FirstRefOnly(refs) == IF Len(refs) > 0 /\ RefRejected(refs[1]) THEN 1 ELSE 0
FirstBadRef(refs) ==
  IF \E k \in 1..Len(refs) : RefRejected(refs[k])
  THEN CHOOSE k \in 1..Len(refs) :
         RefRejected(refs[k]) /\ \A j \in 1..(k - 1) : ~RefRejected(refs[j])
  ELSE 0

\* validate_allowlist: NoError when the statement is accepted.
\* refs: the references; k: the first one the loop rejects, or 0.
AllowlistVerdict(refs, k) ==
  IF Len(refs) = 0
  THEN (IF REQUIRE_FQN_TABLE THEN ValueError("MissingQualifiedTable") ELSE NoError)
  ELSE IF k = 0 THEN NoError
  ELSE IF (refs[k][1] \o <<".">> \o refs[k][2]) \notin ALLOWED_DATASETS
       THEN PermissionError("DatasetNotAllowed")
  ELSE PermissionError("TableNotAllowed")
validate_allowlist(sql) ==
  AllowlistVerdict(allowlist_refs(sql), FirstBadRef(allowlist_refs(sql)))

\* An ensure_limit that appends whatever the statement holds.
append_limit(sql) ==
  RStripSemicolons(RStrip(sql))
    \o <<"\n","L","I","M","I","T"," ">> \o IntToText(LIMIT_DEFAULT)
\* ensure_limit(sql) with limit=None
ensure_limit(sql) ==
  IF Search(sql, LIMIT_RE) \/ has_count_only(sql) THEN sql
  ELSE RStripSemicolons(RStrip(sql))
         \o <<"\n","L","I","M","I","T"," ">> \o IntToText(LIMIT_DEFAULT)

\* ------------------------------------------------------------- state

VARIABLES
  pc,        \* where ChatRunner.answer() is, or "direct" for a bare execute_sql caller
  plan,      \* the plan of the Orchestrator
  sql,       \* answer()'s sql
  notes,     \* answer()'s notes
  last_mes,  \* what _get_last_mes() returned
  e1,        \* the exception answer() caught
  err,       \* the exception answer() let out
  res,       \* the result answer() got from execute_sql
  ex,        \* the running execute_sql call
  log,       \* what happened, in order: execute_sql entered, checks passed, warehouse calls
  input,     \* the question to answer(), or the statement of a bare caller
  out        \* what answer() returned

vars == <<pc, plan, sql, notes, last_mes, e1, err, res, ex, log, input, out>>

ZeroBytes == [mib |-> 0, rem |-> 0]
\* A value of a row or of a plan: None, an int or a str.
Null == [kind |-> "null", val |-> 0, text |-> <<>>]
IntVal(v) == [kind |-> "int", val |-> v, text |-> <<>>]
TextVal(t) == [kind |-> "text", val |-> 0, text |-> t]

\* An exception in flight: its class, the raise statement that made it, the
\* estimate its message carries and the execute_sql call that raised it.
NoExc == [type |-> "none", what |-> "none", est |-> ZeroBytes, call |-> "none"]
Raised(e, est, call) == [type |-> e.type, what |-> e.what, est |-> est, call |-> call]
RuntimeError(what) == [type |-> "RuntimeError", what |-> what]

NoResult == [rows |-> 0, first |-> Null, total_rows |-> 0,
             estimated_bytes |-> ZeroBytes, sql_used |-> <<>>]
NoCall == [caller |-> "none", step |-> "idle", sql |-> <<>>, sql_used |-> <<>>,
           est |-> ZeroBytes, exc |-> NoExc, result |-> NoResult]
\* execute_sql(text) entered by caller
Call(caller, text) == [NoCall EXCEPT !.caller = caller, !.step = "validate", !.sql = text]

Event(op, caller, text, est) == [op |-> op, caller |-> caller, sql |-> text, est |-> est]

\* ------------------------------------------------- agents/sql_agent.py

\* str.strip(chars), s.count("."), s.startswith and s.endswith of a backquote
StripIn(s, class) == RStripIn(SubSeq(s, SkipIn(s, 1, class), Len(s)), class)
CountDots(s) == Cardinality({j \in 1..Len(s) : s[j] = "."})
IsBackquoted(s) == Len(s) > 0 /\ s[1] = Bq /\ s[Len(s)] = Bq
\* x in seq
InSeq(x, seq) == \E k \in 1..Len(seq) : seq[k] = x

\* _ci_equal
ci_equal(a, b) == Upper(Strip(a)) = Upper(Strip(b))
\* The first c of cols with _ci_equal(name, c), as <<c>>, or <<>>.
FirstCiEqual(name, cols) ==
  IF \E k \in 1..Len(cols) : ci_equal(name, cols[k])
  THEN <<cols[MinOf({k \in 1..Len(cols) : ci_equal(name, cols[k])})]>>
  ELSE <<>>

\* re.match(r"^[A-Za-z_][A-Za-z0-9_]*$", name): $ also matches before one
\* final newline.
IdentStart == Letters \cup {"_"}
IsIdentifier(name) ==
  /\ Len(name) > 0
  /\ name[1] \in IdentStart
  /\ \E n \in {Len(name) - 1, Len(name)} :
       /\ n >= 1
       /\ \A k \in 2..n : name[k] \in WordChars
       /\ n = Len(name) \/ name[Len(name)] = "\n"

\* _quote_ident
quote_ident(name) ==
  IF Len(name) = 0 THEN name
  ELSE IF IsBackquoted(name) THEN name
  ELSE IF IsIdentifier(name) THEN <<Bq>> \o name \o <<Bq>>
  ELSE name

\* _resolve_table_identifier
resolve_table_identifier(t) ==
  LET Qualified(tt) ==
        IF CountDots(tt) # 2 THEN TABLA_BASE_FQN ELSE <<Bq>> \o tt \o <<Bq>>
      Stripped(tt) ==
        IF \/ Contains(tt, <<"<", "<">>) \/ Contains(tt, <<">", ">">>)
           \/ Upper(tt) = <<"T", "A", "B", "L", "A", "_", "B", "A", "S", "E", "_", "F", "Q",
                 "N">>
           \/ Upper(tt) = <<"<", "T", "A", "B", "L", "A", "_", "B", "A", "S", "E", "_", "F",
                 "Q", "N", ">">>
        THEN TABLA_BASE_FQN
        ELSE Qualified(IF CountDots(tt) = 1 THEN PROJECT_ID \o <<".">> \o tt ELSE tt)
  IN IF Len(t) = 0 THEN TABLA_BASE_FQN ELSE Stripped(StripIn(Strip(t), {Bq}))

\* _quote_fqn
quote_fqn(fqn) ==
  LET Stripped(s) ==
        IF IsBackquoted(s) THEN s
        ELSE IF Len(SplitDot(s)) = 3 THEN <<Bq>> \o s \o <<Bq>>
        ELSE s
  IN Stripped(Strip(fqn))

\* Code points order the characters: Python compares str by code point.
Ascii == <<"\t", "\n", "\r", " ", "$", "'", "(", ")", "*", "+", ",", "-", ".", "/",
           "0", "1", "2", "3", "4", "5", "6", "7", "8", "9", ";", "<", "=", ">">>
         \o UpperLetters \o <<"_", Bq>> \o LowerLetters
\* x < y for two texts
TextLess(x, y) ==
  LET Ord(c) == CHOOSE k \in 1..Len(Ascii) : Ascii[k] = c IN
  \E k \in 1..(Len(x) + 1) :
     /\ \A d \in 1..(k - 1) : d <= Len(y) /\ x[d] = y[d]
     /\ k <= Len(y)
     /\ k = Len(x) + 1 \/ Ord(x[k]) < Ord(y[k])

\* difflib.SequenceMatcher(None, a, b): the characters get_matching_blocks
\* matches in a[alo..ahi] and b[blo..bhi].  find_longest_match takes, of the
\* blocks a[i..i+k-1] = b[j..j+k-1], the longest, the earliest in a, then
\* in b; the search goes on to its left and to its right.
RECURSIVE MatchCount(_, _, _, _, _, _)
MatchCount(a, b, alo, ahi, blo, bhi) ==
  LET Before(m, o) == \/ m[3] > o[3]
                      \/ m[3] = o[3] /\ m[1] < o[1]
                      \/ m[3] = o[3] /\ m[1] = o[1] /\ m[2] <= o[2]
      Longest(blocks) == CHOOSE m \in blocks : \A o \in blocks : Before(m, o)
      Around(m) == m[3] + MatchCount(a, b, alo, m[1] - 1, blo, m[2] - 1)
                        + MatchCount(a, b, m[1] + m[3], ahi, m[2] + m[3], bhi)
      Found(blocks) == IF blocks = {} THEN 0 ELSE Around(Longest(blocks))
  IN IF alo > ahi \/ blo > bhi THEN 0
     ELSE Found({ m \in (alo..ahi) \X (blo..bhi) \X (1..(ahi - alo + 1)) :
                    /\ m[1] + m[3] - 1 <= ahi
                    /\ m[2] + m[3] - 1 <= bhi
                    /\ \A d \in 0..(m[3] - 1) : a[m[1] + d] = b[m[2] + d] })
\* ratio() = 2.0 * M / T as the pair <<M, T>>; 1.0 when both are empty.
Ratio(a, b) ==
  IF Len(a) + Len(b) = 0 THEN <<1, 2>>
  ELSE <<MatchCount(a, b, 1, Len(a), 1, Len(b)), Len(a) + Len(b)>>
\* difflib.get_close_matches(word, possibilities, n=1): cutoff 0.6, the
\* greatest (ratio, x) as heapq.nlargest compares the pairs; <<x>> or <<>>.
get_close_matches(word, possibilities) ==
  LET Less(p, q) == \/ p.r[1] * q.r[2] < q.r[1] * p.r[2]
                    \/ p.r[1] * q.r[2] = q.r[1] * p.r[2] /\ TextLess(p.x, q.x)
      Best(scored) ==
        IF scored = {} THEN <<>>
        ELSE <<(CHOOSE p \in scored : \A q \in scored : q = p \/ Less(q, p)).x>>
  IN Best({ p \in { [x |-> possibilities[k], r |-> Ratio(possibilities[k], word)] :
                     k \in 1..Len(possibilities) } : 10 * p.r[1] >= 3 * p.r[2] })

\* A note of the build or of answer(): which message, and what it names.
Note(kind, a, b) == [note |-> kind, a |-> a, b |-> b]
NoNote == Note("none", <<>>, <<>>)
\* The notes of a sequence of results that carry one.
NotesOf(results) ==
  [k \in 1..Len(SelectSeq(results, LAMBDA r : r.note # NoNote)) |->
     SelectSeq(results, LAMBDA r : r.note # NoNote)[k].note]
\* The elements of a finite set of numbers, ascending.
Ascending(S) ==
  [k \in 1..Cardinality(S) |-> CHOOSE x \in S : Cardinality({y \in S : y < x}) = k - 1]

AUTO_FUZZY_DIM_MATCH == TRUE
SYNONYMS(dim) ==
  IF dim = <<"S", "E", "C", "T", "O", "R", "_", "E", "S", "T", "R", "A", "T", "E", "G", "I",
        "C", "O">> \/ dim = <<"S", "E", "C", "T", "O", "R">>
  THEN << <<"S", "E", "C", "T", "O", "R", "_", "C", "O", "V", "1", "9">>, <<"C", "A", "L", "I",
        "F", "I", "C", "A", "C", "I", "O", "N", "_", "G", "R", "U", "P", "O">>, <<"C", "O",
        "D", "_", "C", "N", "A", "E">>, <<"D", "E", "S", "C", "_", "C", "N", "A", "E">> >>
  ELSE <<>>

\* _resolve_dim: [ok, col, note]; not ok is the ValueError it raises.
resolve_dim(dim, cols) ==
  LET Found(col, note) == [ok |-> TRUE, col |-> col, note |-> note]
      NotFound == [ok |-> FALSE, col |-> <<>>, note |-> NoNote]
      Hit(syn) == IF InSeq(syn, cols) THEN <<syn>> ELSE FirstCiEqual(syn, cols)
      Fuzzy(close) ==
        IF close # <<>> THEN Found(close[1], Note("dim_closest", dim, close[1]))
        ELSE NotFound
      BySynonym(hits) ==
        IF \E k \in 1..Len(hits) : hits[k] # <<>>
        THEN Found(hits[MinOf({k \in 1..Len(hits) : hits[k] # <<>>})][1],
                   Note("dim_synonym", dim,
                        hits[MinOf({k \in 1..Len(hits) : hits[k] # <<>>})][1]))
        ELSE IF AUTO_FUZZY_DIM_MATCH THEN Fuzzy(get_close_matches(dim, cols))
        ELSE NotFound
      ByName(same) ==
        IF same # <<>> THEN Found(same[1], NoNote)
        ELSE BySynonym([k \in 1..Len(SYNONYMS(dim)) |-> Hit(SYNONYMS(dim)[k])])
  IN IF InSeq(dim, cols) THEN Found(dim, NoNote) ELSE ByName(FirstCiEqual(dim, cols))

\* \bAS\b and \bAS\s+[A-Za-z_][A-Za-z0-9_]*\b, re.IGNORECASE
AS_RE == <<Wb, LitCI(<<"A", "S">>), Wb>>
AS_NAME_RE == <<Wb, LitCI(<<"A", "S">>), Ws, Id, Wb>>

\* A resolver that hands the token on as it was written.
resolve_metric_verbatim(m0, catalog) == [expr |-> Strip(m0), note |-> NoNote]

\* A resolver that takes every token for a bare column.
resolve_metric_as_column(m0, catalog) ==
  [expr |-> quote_ident(Strip(m0)) \o <<" ", "A", "S", " ">> \o Strip(m0), note |-> NoNote]

\* _resolve_metric_expr: [expr, note].  catalog: the "metrics" of
\* metrics.yaml, a sequence of [name, expr].
resolve_metric_expr(m0, catalog) ==
  LET Plain(expr) == [expr |-> expr, note |-> NoNote]
      FromCatalog(m, expr) ==
        [expr |-> IF Search(expr, AS_NAME_RE) THEN expr ELSE expr \o <<" ", "A", "S",
              " ">> \o m,
         note |-> Note("metric_catalog", m, <<>>)]
      Resolved(m) ==
        IF Search(m, AS_RE) THEN Plain(m)
        ELSE IF \E k \in 1..Len(catalog) : catalog[k].name = m
        THEN FromCatalog(m, Strip(catalog[CHOOSE k \in 1..Len(catalog) :
                                            catalog[k].name = m].expr))
        ELSE IF \/ Contains(m, <<"(">>) \/ Contains(m, <<" ">>)
                \/ \E i \in 1..Len(m) : m[i] \in {"+", "-", "/", "*"}
        THEN Plain(m)
        ELSE Plain(quote_ident(m) \o <<" ", "A", "S", " ">> \o m)
  IN Resolved(Sub(Strip(m0), <<Run({";"})>>, <<" ">>))

MetricIgnore == {
  <<"S", "U", "M">>, <<"A", "V", "G">>, <<"C", "O", "U", "N", "T">>, <<"M", "I", "N">>, <<"M",
        "A", "X">>, <<"C", "A", "S", "T">>, <<"S", "A", "F", "E", "_", "C", "A", "S", "T">>,
        <<"D", "I", "S", "T", "I", "N", "C", "T">>, <<"C", "A", "S", "E">>,
  <<"W", "H", "E", "N">>, <<"T", "H", "E", "N">>, <<"E", "L", "S", "E">>, <<"E", "N", "D">>,
        <<"N", "U", "L", "L">>, <<"I", "F">>, <<"A", "N", "D">>, <<"O", "R">>, <<"N", "O",
        "T">>, <<"D", "A", "T", "E">>,
  <<"D", "A", "T", "E", "T", "I", "M", "E">>, <<"T", "I", "M", "E", "S", "T", "A", "M", "P">>,
        <<"E", "X", "T", "R", "A", "C", "T">>, <<"D", "A", "T", "E", "_", "T", "R", "U", "N",
        "C">>, <<"C", "O", "A", "L", "E", "S", "C", "E">>, <<"R", "O", "U", "N", "D">>, <<"F",
        "L", "O", "O", "R">>,
  <<"C", "E", "I", "L">>, <<"P", "O", "W", "E", "R">>, <<"A", "B", "S">>, <<"T", "R", "U",
        "E">>, <<"F", "A", "L", "S", "E">>, <<"O", "V", "E", "R">>, <<"P", "A", "R", "T", "I",
        "T", "I", "O", "N">>, <<"B", "Y">> }
\* _cols_referenced_in_metric: the identifiers before the first \bAS\b, less
\* the ignored names.  An identifier starts at the first letter or "_" of a
\* run of word characters.
cols_referenced_in_metric(expr) ==
  LET BeforeAs(s) ==
        IF Search(s, AS_RE)
        THEN SubSeq(s, 1, MinOf({i \in 1..Len(s) : MatchEnd(s, i, AS_RE, 1) # 0}) - 1)
        ELSE s
      Tokens(s, starts) ==
        [k \in 1..Len(starts) |-> SubSeq(s, starts[k], SkipIn(s, starts[k], WordChars) - 1)]
      Referenced(s) ==
        Tokens(s, Ascending({i \in 1..Len(s) :
                 /\ s[i] \in IdentStart
                 /\ \A k \in 1..(i - 1) :
                      (\A d \in k..(i - 1) : s[d] \in WordChars) => s[k] \in Digits}))
  IN SelectSeq(Referenced(BeforeAs(expr)), LAMBDA t : \A w \in MetricIgnore : Upper(t) # w)

\* The year datetime.now() gives.
CurrentYear == 2026

\* _mes_shortcut_to_sql
mes_shortcut_to_sql(code) ==
  LET Since(start) ==
        <<"C", "A", "S", "T", "(", "M", "E", "S", " ", "A", "S", " ", "I", "N", "T", "6", "4",
              ")", " ", "B", "E", "T", "W", "E", "E", "N", " ", "C", "A", "S", "T", "(", "F",
              "O", "R", "M", "A", "T", "_", "D", "A", "T", "E", "(", "'", "%", "Y", "%", "m",
              "'", ",", " ">> \o start
          \o <<")", " ", "A", "S", " ", "I", "N", "T", "6", "4", ")", " ", "A", "N", "D", " ",
                "C", "A", "S", "T", "(", "F", "O", "R", "M", "A", "T", "_", "D", "A", "T", "E",
                "(", "'", "%", "Y", "%", "m", "'", ",", " ", "C", "U", "R", "R", "E", "N", "T",
                "_", "D", "A", "T", "E", "(", ")", ")", " ", "A", "S", " ", "I", "N", "T", "6",
                "4", ")">>
      Coded(c) ==
        IF c = <<"L", "A", "S", "T", "_", "1", "M">> THEN Since(<<"D", "A", "T", "E", "_", "S",
              "U", "B", "(", "C", "U", "R", "R", "E", "N", "T", "_", "D", "A", "T", "E", "(",
              ")", ",", " ", "I", "N", "T", "E", "R", "V", "A", "L", " ", "1", " ", "M", "O",
              "N", "T", "H", ")">>)
        ELSE IF c = <<"L", "A", "S", "T", "_", "3", "M">> THEN Since(<<"D", "A", "T", "E", "_",
              "S", "U", "B", "(", "C", "U", "R", "R", "E", "N", "T", "_", "D", "A", "T", "E",
              "(", ")", ",", " ", "I", "N", "T", "E", "R", "V", "A", "L", " ", "3", " ", "M",
              "O", "N", "T", "H", ")">>)
        ELSE IF c = <<"L", "A", "S", "T", "_", "1", "2", "M">> THEN Since(<<"D", "A", "T", "E",
              "_", "S", "U", "B", "(", "C", "U", "R", "R", "E", "N", "T", "_", "D", "A", "T",
              "E", "(", ")", ",", " ", "I", "N", "T", "E", "R", "V", "A", "L", " ", "1", "2",
              " ", "M", "O", "N", "T", "H", ")">>)
        ELSE IF c = <<"Y", "T", "D">> THEN Since(<<"D", "A", "T", "E", "_", "T", "R", "U", "N",
              "C", "(", "C", "U", "R", "R", "E", "N", "T", "_", "D", "A", "T", "E", "(", ")",
              ",", " ", "Y", "E", "A", "R", ")">>)
        ELSE IF c = <<"M", "T", "D">> THEN Since(<<"D", "A", "T", "E", "_", "T", "R", "U", "N",
              "C", "(", "C", "U", "R", "R", "E", "N", "T", "_", "D", "A", "T", "E", "(", ")",
              ",", " ", "M", "O", "N", "T", "H", ")">>)
        ELSE <<>>
  IN Coded(Upper(code))

\* filters["MES"]: absent, a shortcut code, or a dict with its type
\* ("range_ym", "year", "between_year", or "none" for a dict without type),
\* its from and to, and its year.
NoMes == [kind |-> "absent", code |-> <<>>, type |-> "none",
          from |-> Null, to |-> Null, year |-> Null]
MesCode(code) == [NoMes EXCEPT !.kind = "code", !.code = code]
MesDict(type, from, to, year) ==
  [NoMes EXCEPT !.kind = "dict", !.type = type, !.from = from, !.to = to, !.year = year]

\* A period filter that writes the range of a dict as it comes.
build_mes_filter_unchecked(f) ==
  IF f.kind = "dict" /\ f.from # Null /\ f.to # Null
  THEN [ok |-> TRUE, text |-> <<"C", "A", "S", "T", "(", "M", "E", "S", " ", "A", "S", " ",
        "I", "N", "T", "6", "4", ")", " ", "B", "E", "T", "W", "E", "E", "N",
        " ">> \o IntToText(f.from.val)
                                \o <<" ", "A", "N", "D", " ">> \o IntToText(f.to.val)]
  ELSE [ok |-> TRUE, text |-> <<>>]

\* _build_mes_filter: [ok, text]; text <<>> is None, not ok is the ValueError
\* of ym_int.
build_mes_filter(f) ==
  LET Some(text) == [ok |-> TRUE, text |-> text]
      InRange(v) == v.val >= 190001 /\ v.val <= 299912
      Range(y1, y2) ==
        IF ~InRange(y1) \/ ~InRange(y2) THEN [ok |-> FALSE, text |-> <<>>]
        ELSE Some(<<"C", "A", "S", "T", "(", "M", "E", "S", " ", "A", "S", " ", "I", "N", "T",
              "6", "4", ")", " ", "B", "E", "T", "W", "E", "E", "N", " ">> \o IntToText(y1.val)
                    \o <<" ", "A", "N", "D", " ">> \o IntToText(y2.val))
      Year(y) ==
        Some(<<"C", "A", "S", "T", "(", "M", "E", "S", " ", "A", "S", " ", "I", "N", "T", "6",
              "4", ")", " ", "B", "E", "T", "W", "E", "E", "N", " ">> \o IntToText(y) \o <<"0",
              "1", " ", "A", "N", "D", " ">>
               \o IntToText(y) \o <<"1", "2">>)
  IN IF f.kind = "absent" THEN Some(<<>>)
     ELSE IF f.kind = "code" THEN Some(mes_shortcut_to_sql(f.code))
     ELSE IF f.type = "range_ym" THEN Range(f.from, f.to)
     ELSE IF f.type \in {"between_year", "year"}
     THEN Year(IF f.year.kind = "text" /\ Lower(f.year.text) = <<"t", "h", "i", "s">>
               THEN CurrentYear ELSE f.year.val)
     ELSE IF f.from # Null /\ f.to # Null THEN Range(f.from, f.to)
     ELSE Some(<<>>)

\* _escape_literal
escape_literal(v) ==
  IF v.kind = "null" THEN <<"N", "U", "L", "L">>
  ELSE IF v.kind = "int" THEN IntToText(v.val)
  ELSE <<"'">> \o Sub(v.text, <<Lit(<<"'">>)>>, <<"'", "'">>) \o <<"'">>

\* plan.filters: MES, the raw where (<<>> when absent) and the eq, in, like
\* and ilike dicts as sequences of [col, val] in the order of their keys (the
\* val of an "in" entry is a sequence of values).
NoFilters == [MES |-> NoMes, where |-> <<>>, eq |-> <<>>, isin |-> <<>>,
              like |-> <<>>, ilike |-> <<>>]

\* A _build_extra_where that renders every filter, whatever its column.
build_extra_where_unchecked(filters, cols) ==
  LET Has(col) == TRUE
      Each(pairs, Clause(_)) ==
        [k \in 1..Len(SelectSeq(pairs, LAMBDA p : Has(p.col))) |->
           Clause(SelectSeq(pairs, LAMBDA p : Has(p.col))[k])]
      Raw(where) == IF Len(where) > 0 THEN << <<"(">> \o where \o <<")">> >> ELSE <<>>
      Eq(p) == quote_ident(p.col) \o <<" ", "=", " ">> \o escape_literal(p.val)
      In(p) == quote_ident(p.col) \o <<" ", "I", "N", " ", "(">>
                 \o Join(<<",", " ">>,
                       [k \in 1..Len(p.val) |-> escape_literal(p.val[k])]) \o <<")">>
      Like(p) == quote_ident(p.col) \o <<" ", "L", "I", "K", "E", " ">> \o escape_literal(p.val)
      ILike(p) == <<"L", "O", "W", "E", "R", "(">> \o quote_ident(p.col) \o <<")", " ", "L",
            "I", "K", "E", " ", "L", "O", "W", "E", "R", "(">>
                    \o escape_literal(p.val) \o <<")">>
  IN Raw(Strip(filters.where)) \o Each(filters.eq, Eq) \o Each(filters.isin, In)
       \o Each(filters.like, Like) \o Each(filters.ilike, ILike)
\* _build_extra_where
build_extra_where(filters, cols) ==
  LET Has(col) == InSeq(col, cols) \/ \E k \in 1..Len(cols) : Lower(col) = Lower(cols[k])
      Each(pairs, Clause(_)) ==
        [k \in 1..Len(SelectSeq(pairs, LAMBDA p : Has(p.col))) |->
           Clause(SelectSeq(pairs, LAMBDA p : Has(p.col))[k])]
      Raw(where) == IF Len(where) > 0 THEN << <<"(">> \o where \o <<")">> >> ELSE <<>>
      Eq(p) == quote_ident(p.col) \o <<" ", "=", " ">> \o escape_literal(p.val)
      In(p) == quote_ident(p.col) \o <<" ", "I", "N", " ", "(">>
                 \o Join(<<",", " ">>,
                       [k \in 1..Len(p.val) |-> escape_literal(p.val[k])]) \o <<")">>
      Like(p) == quote_ident(p.col) \o <<" ", "L", "I", "K", "E", " ">> \o escape_literal(p.val)
      ILike(p) == <<"L", "O", "W", "E", "R", "(">> \o quote_ident(p.col) \o <<")", " ", "L",
            "I", "K", "E", " ", "L", "O", "W", "E", "R", "(">>
                    \o escape_literal(p.val) \o <<")">>
  IN Raw(Strip(filters.where)) \o Each(filters.eq, Eq) \o Each(filters.isin, In)
       \o Each(filters.like, Like) \o Each(filters.ilike, ILike)

\* A builder that returns a statement where it should raise.
ReturnedAnyway(what) ==
  [ok |-> TRUE, exc |-> NoError,
   sql |-> <<"S", "E", "L", "E", "C", "T", "\n", " ", " ", "\n", "F", "R", "O", "M",
         " ">> \o TABLA_BASE_FQN \o <<"\n", "L", "I", "M", "I", "T",
         " ">> \o IntToText(LIMIT_DEFAULT),
   used_table |-> TABLA_BASE_FQN, dims |-> <<>>, metrics |-> <<>>, order_by |-> <<>>,
   limit |-> LIMIT_DEFAULT, notes |-> <<>>]

\* SqlBuildResult, or the ValueError build_sql_from_plan raises.
BuildRaised(what) ==
  [ok |-> FALSE, exc |-> ValueError(what), sql |-> <<>>, used_table |-> <<>>,
   dims |-> <<>>, metrics |-> <<>>, order_by |-> <<>>, limit |-> 0, notes |-> <<>>]

\* build_sql_from_plan past list_columns: cols is what list_columns gave,
\* catalog what _load_metrics_cfg gave.
build_sql_from_plan(pl, cols, catalog) ==
  LET NonEmpty(head, parts, sep) ==
        IF Len(parts) = 0 THEN <<>> ELSE head \o Join(sep, parts)
      OrderParts(ordering) ==
        [k \in 1..Len(ordering) |->
           ordering[k].by \o <<" ">>
             \o Upper(IF Len(ordering[k].dir) = 0 THEN <<"D", "E", "S",
                   "C">> ELSE ordering[k].dir)]
      Assemble(tbl, dims, metrics, where, order, lim, ns) ==
        [ok |-> TRUE, exc |-> NoError,
         sql |-> Strip(<<"\n", "S", "E", "L", "E", "C", "T", "\n", " ", " ">>
                   \o Join(<<",", "\n", " ", " ">>,
                         [k \in 1..Len(dims) |-> quote_ident(dims[k])] \o metrics)
                   \o <<"\n", "F", "R", "O", "M", " ">> \o tbl
                   \o NonEmpty(<<"\n", "W", "H", "E", "R", "E", " ">>, where, <<" ", "A", "N",
                         "D", " ">>)
                   \o NonEmpty(<<"\n", "G", "R", "O", "U", "P", " ", "B", "Y", " ">>,
                         [k \in 1..Len(dims) |-> quote_ident(dims[k])], <<",", " ">>)
                   \o NonEmpty(<<"\n", "O", "R", "D", "E", "R", " ", "B", "Y", " ">>, order,
                         <<",", " ">>)
                   \o <<"\n", "L", "I", "M", "I", "T", " ">> \o IntToText(lim) \o <<"\n">>),
         used_table |-> tbl, dims |-> dims, metrics |-> metrics,
         order_by |-> order, limit |-> lim, notes |-> ns]
      Where(tbl, mes) ==
        (IF Len(mes.text) > 0 THEN <<mes.text>> ELSE <<>>)
        \o (IF pl.filters.MES.kind = "code"
               /\ Upper(pl.filters.MES.code) = <<"L", "A", "S", "T", "_", "A", "V", "A", "I",
                     "L", "A", "B", "L", "E">>
            THEN << <<"C", "A", "S", "T", "(", "M", "E", "S", " ", "A", "S", " ", "I", "N",
                  "T", "6", "4", ")", " ", "=", " ", "(", "S", "E", "L", "E", "C", "T", " ",
                  "M", "A", "X", "(", "C", "A", "S", "T", "(", "M", "E", "S", " ", "A", "S",
                  " ", "I", "N", "T", "6", "4", ")", ")", " ", "F", "R", "O", "M",
                  " ">> \o tbl \o <<")">> >>
            ELSE <<>>)
        \o build_extra_where(pl.filters, cols)
      WithMes(tbl, dims, metrics, ns, mes) ==
        IF ~mes.ok THEN BuildRaised("InvalidPeriod")
        ELSE Assemble(tbl, dims, metrics, Where(tbl, mes),
                      OrderParts(SelectSeq(pl.ordering, LAMBDA o : Len(o.by) > 0)),
                      IF pl.limit = 0 THEN LIMIT_DEFAULT ELSE pl.limit, ns)
      Missing(expr) ==
        \E k \in 1..Len(cols_referenced_in_metric(expr)) :
           /\ ~InSeq(cols_referenced_in_metric(expr)[k], cols)
           /\ FirstCiEqual(cols_referenced_in_metric(expr)[k], cols) = <<>>
      WithMetrics(tbl, dims, found) ==
        IF \E k \in 1..Len(found) : Missing(found[k].expr)
        THEN BuildRaised("MetricColumnNotFound")
        ELSE IF Len(dims) = 0 /\ Len(found) = 0 THEN BuildRaised("EmptyProjection")
        ELSE WithMes(tbl, [k \in 1..Len(dims) |-> dims[k].col],
                     [k \in 1..Len(found) |-> found[k].expr],
                     <<Note("sql_agent_config", <<>>,
                           <<>>)>> \o NotesOf(dims) \o NotesOf(found),
                     build_mes_filter(pl.filters.MES))
      WithDims(tbl, dims) ==
        IF \E k \in 1..Len(dims) : ~dims[k].ok THEN BuildRaised("DimensionNotFound")
        ELSE WithMetrics(tbl, dims,
               [k \in 1..Len(pl.metrics) |-> resolve_metric_expr(pl.metrics[k], catalog)])
  IN WithDims(quote_fqn(Strip(resolve_table_identifier(
                IF Len(pl.tables) = 0 THEN <<>> ELSE pl.tables[1]))),
              [k \in 1..Len(pl.dimensions) |-> resolve_dim(pl.dimensions[k], cols)])

\* The table build_sql_from_plan asks list_columns about.
BuildTable(pl) ==
  quote_fqn(Strip(resolve_table_identifier(
    IF Len(pl.tables) = 0 THEN <<>> ELSE pl.tables[1])))

\* ------------------------------------------------ agents/orchestrator.py

\* _normalize_metrics: stripped, the empty ones and the repeats dropped.
normalize_metrics(metrics) ==
  LET Kept(stripped) ==
        [k \in 1..Cardinality({i \in 1..Len(stripped) :
                 /\ Len(stripped[i]) > 0
                 /\ \A j \in 1..(i - 1) : stripped[j] # stripped[i]}) |->
           stripped[Ascending({i \in 1..Len(stripped) :
                     /\ Len(stripped[i]) > 0
                     /\ \A j \in 1..(i - 1) : stripped[j] # stripped[i]})[k]]]
  IN Kept([k \in 1..Len(metrics) |-> Strip(metrics[k])])

\* _normalize_ordering
normalize_ordering(ordering, metrics) ==
  LET Dir(d) == IF Upper(d) = <<"A", "S", "C">> THEN <<"A", "S", "C">> ELSE <<"D", "E", "S",
        "C">>
      Given(kept) ==
        [k \in 1..Len(kept) |-> [by |-> Strip(kept[k].by), dir |-> Dir(kept[k].dir)]]
  IN IF Len(ordering) = 0
     THEN (IF Len(metrics) = 0 THEN <<>>
           ELSE << [by |-> Sub(metrics[1], <<Ws, LitCI(<<"A", "S">>), Ws, Run(WordChars),
                 End>>, <<>>),
                    dir |-> <<"D", "E", "S", "C">>] >>)
     ELSE Given(SelectSeq(ordering, LAMBDA o : Len(Strip(o.by)) > 0))

\* _sanitize_tables
sanitize_tables(tbls) ==
  LET Clean(tt) ==
        IF \/ Len(tt) = 0 \/ Contains(tt, <<"<", "<">>) \/ Contains(tt, <<">", ">">>)
           \/ Upper(tt) = <<"T", "A", "B", "L", "A", "_", "B", "A", "S", "E", "_", "F", "Q",
                 "N">> \/ Upper(tt) = <<"<", "T", "A", "B", "L", "A", "_", "B", "A", "S", "E",
                 "_", "F", "Q", "N", ">">>
        THEN TABLA_BASE_FQN
        ELSE IF CountDots(tt) = 2 THEN <<Bq>> \o tt \o <<Bq>>
        ELSE TABLA_BASE_FQN
  IN IF Len(tbls) = 0 THEN <<TABLA_BASE_FQN>>
     ELSE [k \in 1..Len(tbls) |-> Clean(StripIn(Strip(tbls[k]), {Bq}))]

\* What answer() returns: the web branch gives sql None and df None.
NoAnswer == [ok |-> FALSE, branch |-> "none", sql |-> <<>>, rows |-> 0, notes |-> <<>>,
             stats |-> ZeroBytes]

\* ---------------------------------------------------------- the warehouse
\* What the BigQuery client may answer.  The estimates sit on both sides of
\* the threshold; a failing call raises an exception of the client library
\* or of the runtime under it.
Estimates ==
  { ZeroBytes,
    [mib |-> ENV_MB - 1, rem |-> MiB - 1],
    BYTES_THRESHOLD,
    [mib |-> ENV_MB, rem |-> 1],
    [mib |-> 2 * ENV_MB, rem |-> 0] }
ClientErrors == { [type |-> "GoogleAPIError", what |-> "client"],
                  RuntimeError("client") }
\* MAX(MES) of the base table, as the row gives it: NULL, an INT64, a STRING
\* of digits or a text that int() rejects.
LastPeriod == 202403
LastMesValues ==
  { Null, IntVal(LastPeriod), IntVal(0), TextVal(<<"2","0","2","4","0","3">>),
    TextVal(<<"n","/","a">>) }
\* Rows a query job yields: more than the cap, too.
RowCounts == { 0, 1, MAX_ROWS_RETURNED + 1 }
JobAnswers(caller) ==
  IF caller = "lookup"
  THEN { [n |-> 0, first |-> Null] } \cup { [n |-> 1, first |-> v] : v \in LastMesValues }
  ELSE { [n |-> n, first |-> Null] : n \in RowCounts }

\* ------------------------------------------------------------ execute_sql

\* execute_sql without its call of validate_allowlist.
ChecksWithoutAllowlist == <<"readonly">>
\* The checks of execute_sql, in the order it makes them.
ExecuteChecks == <<"readonly", "allowlist">>
CheckOf(name, text) ==
  IF name = "readonly" THEN validate_sql_readonly(text) ELSE validate_allowlist(text)
\* passed: the checks that accepted the statement, in order; exc: the first
\* rejection, or NoError.
ChecksUpTo(verdicts, stop) ==
  [passed |-> [k \in 1..(stop - 1) |-> ExecuteChecks[k]],
   exc |-> IF stop > Len(verdicts) THEN NoError ELSE verdicts[stop]]
FirstFailure(verdicts) ==
  IF \A k \in 1..Len(verdicts) : verdicts[k] = NoError THEN Len(verdicts) + 1
  ELSE MinOf({k \in 1..Len(verdicts) : verdicts[k] # NoError})
Verdicts(text) == [k \in 1..Len(ExecuteChecks) |-> CheckOf(ExecuteChecks[k], text)]
RunChecks(text) == ChecksUpTo(Verdicts(text), FirstFailure(Verdicts(text)))

\* estimated_bytes >= BYTES_THRESHOLD: a refusal at the threshold itself.
TooExpensiveInclusive(est) == ~BytesGT(BYTES_THRESHOLD, est)
\* estimated_bytes > BYTES_THRESHOLD
TooExpensive(est) == BytesGT(est, BYTES_THRESHOLD)

\* An execute_sql that keeps every row the job yields.
RowsKeptAll(n) == n
\* The rows execute_sql keeps of n rows the job yields.
RowsKept(n) == IF n < MAX_ROWS_RETURNED THEN n ELSE MAX_ROWS_RETURNED

\* execute_sql up to the dry-run: the empty check, the guardrails, ensure_limit.
ExecuteValidate ==
  /\ ex.step = "validate"
  /\ IF Len(ex.sql) = 0 \/ Len(Strip(ex.sql)) = 0
     THEN /\ ex' = [ex EXCEPT !.step = "raised",
                              !.exc = Raised(ValueError("EmptySql"), ZeroBytes, ex.caller)]
          /\ log' = log
     ELSE \E r \in {RunChecks(ex.sql)} :
            /\ log' = log \o [k \in 1..Len(r.passed) |->
                                Event(r.passed[k], ex.caller, ex.sql, ZeroBytes)]
            /\ IF r.exc # NoError
               THEN ex' = [ex EXCEPT !.step = "raised",
                                     !.exc = Raised(r.exc, ZeroBytes, ex.caller)]
               ELSE ex' = [ex EXCEPT !.step = "dry_run", !.sql_used = ensure_limit(ex.sql)]
  /\ UNCHANGED <<pc, plan, sql, notes, last_mes, e1, err, res, input, out>>

\* dry_run_sql and the cost refusal.
ExecuteDryRun ==
  /\ ex.step = "dry_run"
  /\ \/ \E e \in ClientErrors :
          /\ ex' = [ex EXCEPT !.step = "raised", !.exc = Raised(e, ZeroBytes, ex.caller)]
          /\ log' = Append(log, Event("dry_run_failed", ex.caller, ex.sql_used, ZeroBytes))
     \/ \E est \in Estimates :
          /\ log' = Append(log, Event("dry_run", ex.caller, ex.sql_used, est))
          /\ IF TooExpensive(est)
             THEN ex' = [ex EXCEPT !.step = "raised", !.est = est,
                            !.exc = Raised(RuntimeError("QueryTooExpensive"), est, ex.caller)]
             ELSE ex' = [ex EXCEPT !.step = "job", !.est = est]
  /\ UNCHANGED <<pc, plan, sql, notes, last_mes, e1, err, res, input, out>>

\* The query job, its rows and the result.
ExecuteJob ==
  /\ ex.step = "job"
  /\ log' = Append(log, Event("job", ex.caller, ex.sql_used, ex.est))
  /\ \/ \E e \in ClientErrors :
          ex' = [ex EXCEPT !.step = "raised", !.exc = Raised(e, ZeroBytes, ex.caller)]
     \/ \E a \in JobAnswers(ex.caller) :
          ex' = [ex EXCEPT !.step = "returned",
                   !.result = [rows |-> RowsKept(a.n), first |-> a.first,
                               total_rows |-> a.n, estimated_bytes |-> ex.est,
                               sql_used |-> ex.sql_used]]
  /\ UNCHANGED <<pc, plan, sql, notes, last_mes, e1, err, res, input, out>>

\* ------------------------------------------- statements of a bare caller
\* execute_sql is a public function: a caller may pass any text.  A statement
\* is put together from a lead, a head, a projection, a FROM clause and a
\* tail; with the text it records what was put in it: the
\* project.dataset.table names it reads (tables) and whether its projection
\* is the bare wildcard after SELECT (star).

AUDIT_LOG_TABLE == <<"S","E","C","_","A","U","D","I","T","_","L","O","G">>
RefName(r) == r[1] \o <<".">> \o r[2] \o <<".">> \o r[3]

\* MaxLead: the most white space before the first token.
MaxLead == 2
Leads == { [k \in 1..n |-> IF k % 2 = 1 THEN " " ELSE "\n"] : n \in 0..MaxLead }

Heads == {
  [text |-> <<"S","E","L","E","C","T"," ">>,
   select |-> TRUE, tables |-> <<>>],
  [text |-> <<"s","e","l","e","c","t"," ">>,
   select |-> TRUE, tables |-> <<>>],
  [text |-> <<"S","e","L","e","C","t","\n","\t">>,
   select |-> TRUE, tables |-> <<>>],
  [text |-> <<"W","I","T","H"," ","x"," ","A","S"," ","(","S","E","L","E","C","T",
        " ","A"," ","F","R","O","M"," ">> \o TABLA_BASE_FQN \o <<")"," ","S","E","L","E","C","T"," ">>,
   select |-> TRUE, tables |-> << <<PROJECT_ID, DATASET, TABLE_BASE>> >>],
  [text |-> <<"w","i","t","h","(","S","E","L","E","C","T"," ">>,
   select |-> TRUE, tables |-> <<>>],
  [text |-> <<"S","E","L","E","C","T","E","D"," ">>,
   select |-> FALSE, tables |-> <<>>],
  [text |-> <<"D","E","L","E","T","E"," ">>,
   select |-> FALSE, tables |-> <<>>],
  [text |-> <<"(","S","E","L","E","C","T"," ">>,
   select |-> TRUE, tables |-> <<>>],
  [text |-> <<"E","X","P","L","A","I","N"," ","S","E","L","E","C","T"," ">>,
   select |-> TRUE, tables |-> <<>>],
  [text |-> <<"S","E","L","E","C","T","_">>,
   select |-> FALSE, tables |-> <<>>]
}
Projections == {
  <<"A">>,
  <<"*">>,
  <<"C","O","U","N","T","(","*",")">>,
  <<"C","R","E","A","T","E","D","_","A","T">>,
  <<"A",","," ","*">> }
\* The tables a statement may read: the base table, the audit log of the
\* same dataset, the base table of another project, another table of the
\* dataset; quoted or bare; and a name that is not fully qualified.
Froms ==
  LET BaseRef == <<PROJECT_ID, DATASET, TABLE_BASE>>
      AuditRef == <<PROJECT_ID, DATASET, AUDIT_LOG_TABLE>>
      OtherRef == <<<<"o","t","h","e","r","p","r","o","j">>, DATASET, TABLE_BASE>>
      V2Ref == <<PROJECT_ID, DATASET, TABLE_BASE \o <<"_","V","2">> >>
      Quoted(name) == <<Bq>> \o name \o <<Bq>>
  IN { [text |-> TABLA_BASE_FQN, tables |-> <<BaseRef>>],
       [text |-> RefName(BaseRef), tables |-> <<BaseRef>>],
       [text |-> Quoted(RefName(AuditRef)), tables |-> <<AuditRef>>],
       [text |-> Quoted(RefName(OtherRef)), tables |-> <<OtherRef>>],
       [text |-> Quoted(RefName(V2Ref)), tables |-> <<V2Ref>>],
       [text |-> Quoted(TABLE_BASE), tables |-> <<>>],
       [text |-> TABLA_BASE_FQN \o <<" ","J","O","I","N"," ">> \o Quoted(RefName(AuditRef))
                   \o <<" ","U","S","I","N","G"," ","(","A",")">>,
        tables |-> <<BaseRef, AuditRef>>] }
Tails == {
  <<>>,
  <<" ","L","I","M","I","T"," ","1","0">>,
  <<" ","W","H","E","R","E"," ","E","S","T","A","D","O"," ","="," ","'",
        "c","r","e","a","t","e","d","'">>,
  <<";"," ","D","R","O","P"," ","T","A","B","L","E"," ","x">>,
  <<" ","W","H","E","R","E"," ","B"," ","="," ","1",";">> }

Statement(lead, head, proj, from, tail) ==
  [text |-> lead \o head.text \o proj \o <<" ","F","R","O","M"," ">> \o from.text \o tail,
   tables |-> head.tables \o from.tables,
   star |-> head.select /\ proj = <<"*">>]
NoText == [text |-> <<>>, tables |-> <<>>, star |-> FALSE]
GuardInputs ==
  LET PlainHead == CHOOSE h \in Heads : h.text = <<"S","E","L","E","C","T"," ">>
      PlainFrom == CHOOSE f \in Froms : f.text = TABLA_BASE_FQN
  IN { Statement(l, h, p, PlainFrom, <<>>) : l \in Leads, h \in Heads, p \in {<<"A">>, <<"*">>} }
     \cup { Statement(<<>>, PlainHead, p, f, tl) : p \in Projections, f \in Froms, tl \in Tails }
     \cup { NoText, [NoText EXCEPT !.text = <<" ", "\n">>] }

\* A bare caller calls execute_sql.
DirectCall ==
  /\ pc = "direct"
  /\ ex.step = "idle"
  /\ \E st \in GuardInputs :
       /\ input' = st
       /\ ex' = Call("direct", st.text)
       /\ log' = Append(log, Event("execute_sql", "direct", st.text, ZeroBytes))
  /\ UNCHANGED <<pc, plan, sql, notes, last_mes, e1, err, res, out>>

NoPlan == [need_sql |-> FALSE]
InitGuard ==
  /\ pc = "direct" /\ plan = NoPlan /\ sql = <<>> /\ notes = <<>>
  /\ last_mes = Null /\ e1 = NoExc /\ err = NoExc /\ res = NoResult
  /\ ex = NoCall /\ log = <<>> /\ input = NoText /\ out = NoAnswer
NextGuard == DirectCall \/ ExecuteValidate \/ ExecuteDryRun \/ ExecuteJob
SpecGuard == InitGuard /\ [][NextGuard]_vars

\* ------------------------------------------------ agents/loop_runner.py

\* Orchestrator.plan past the LLM call: data is the JSON of the LLM.
orchestrator_plan(data, prefer_web) ==
  LET Web(d) == IF prefer_web THEN [d EXCEPT !.need_web = TRUE, !.need_sql = FALSE] ELSE d
      Normal(d, metrics) ==
        [d EXCEPT !.metrics = metrics,
                  !.ordering = normalize_ordering(d.ordering, metrics),
                  !.tables = sanitize_tables(d.tables)]
  IN Normal(Web(data), normalize_metrics(data.metrics))
\* The plan Orchestrator.plan makes up when the LLM gives no JSON.
MinimalPlan(prefer_web) ==
  [need_sql |-> ~prefer_web, need_web |-> prefer_web, tables |-> <<TABLA_BASE_FQN>>,
   metrics |-> << <<"S", "U", "M", "(", "T", "O", "T", "A", "L", "_", "R", "I", "E", "S", "G",
         "O", ")", " ", "A", "S", " ", "R", "I", "E", "S", "G", "O">> >>, dimensions |-> <<>>,
   filters |-> NoFilters, ordering |-> <<>>, limit |-> 200]

\* _get_last_mes: its query, and what it returns for a finished execute_sql:
\* int(rows[0]["last_mes"]), or None when the call raised, gave no row or
\* NULL, or int() raised.
LastMesQuery == <<"S", "E", "L", "E", "C", "T", " ", "M", "A", "X", "(", "M", "E", "S", ")",
      " ", "A", "S", " ", "l", "a", "s", "t", "_", "m", "e", "s", " ", "F", "R", "O", "M",
      " ">> \o TABLA_BASE_FQN \o <<" ", "L", "I", "M", "I", "T", " ", "1">>
RECURSIVE IntOfDigits(_)
IntOfDigits(t) ==
  IF Len(t) = 0 THEN 0
  ELSE 10 * IntOfDigits(SubSeq(t, 1, Len(t) - 1))
       + (CHOOSE d \in 0..9 : DigitSeq[d + 1] = t[Len(t)])
get_last_mes(call) ==
  IF call.step # "returned" \/ call.result.rows = 0 THEN Null
  ELSE IF call.result.first.kind = "int" THEN call.result.first
  ELSE IF /\ call.result.first.kind = "text"
          /\ Len(call.result.first.text) > 0
          /\ \A k \in 1..Len(call.result.first.text) : call.result.first.text[k] \in Digits
       THEN IntVal(IntOfDigits(call.result.first.text))
  ELSE Null

\* patt: CAST\(MES AS INT64\)\s+BETWEEN\s+\d{6}\s+AND\s+\d{6}
MES_RANGE_RE ==
  <<Lit(<<"C", "A", "S", "T", "(", "M", "E", "S", " ", "A", "S", " ", "I", "N", "T", "6", "4",
        ")">>), Ws, Lit(<<"B", "E", "T", "W", "E", "E", "N">>), Ws, Dn(6), Ws, Lit(<<"A", "N",
        "D">>), Ws, Dn(6)>>
\* sql_fb: the statement narrowed to the one period.
fallback_sql(text, period) ==
  LET Clause == <<"C", "A", "S", "T", "(", "M", "E", "S", " ", "A", "S", " ", "I", "N", "T",
        "6", "4", ")", " ", "=", " ">> \o IntToText(period)
      Appended(clean) ==
        IF Search(clean, <<Wb, LitCI(<<"W", "H", "E", "R", "E">>), Wb>>) THEN clean \o <<" ",
              "A", "N", "D", " ">> \o Clause
        ELSE clean \o <<" ", "W", "H", "E", "R", "E", " ">> \o Clause
  IN IF Search(text, MES_RANGE_RE) THEN Sub(text, MES_RANGE_RE, Clause)
     ELSE Appended(RStripSemicolons(RStrip(text)))

\* except RuntimeError as e1
CaughtForFallback(exc) == exc.type = "RuntimeError"
\* A runner that narrows whatever the lookup gave.
TruthyAlways(v) == TRUE
\* if last_mes:
Truthy(v) == v.kind = "int" /\ v.val # 0

\* audit_dataset returns a dict of three keys and pick_spec gets the plan in
\* the place of the dataframe: both steps raise, and each leaves its note.
PostNotes == << Note("data_audit_skipped", <<>>, <<>>), Note("viz_skipped", <<>>, <<>>) >>

\* ------------------------------------------------ questions to answer()
\* What the LLM may plan.  The columns are those list_columns gives for the
\* base table; the catalog is the "metrics" of a metrics.yaml, or empty.
BaseColumns == << <<"M", "E", "S">>, <<"T", "O", "T", "A", "L", "_", "R", "I", "E", "S", "G",
      "O">>, <<"S", "E", "C", "T", "O", "R", "_", "C", "O", "V", "1", "9">>, <<"P", "R", "O",
      "V", "I", "N", "C", "I", "A">>, <<"E", "S", "T", "A", "D", "O">> >>
Catalogs == { <<>>, << [name |-> <<"R", "I", "E", "S", "G", "O">>, expr |-> <<"S", "U", "M",
      "(", "T", "O", "T", "A", "L", "_", "R", "I", "E", "S", "G", "O", ")">>] >> }
RangeMes == MesDict("range_ym", IntVal(202301), IntVal(202312), Null)
LlmPlans ==
  LET Base == MinimalPlan(FALSE) IN
  { Base,
    [Base EXCEPT !.dimensions = << <<"P", "R", "O", "V", "I", "N", "C", "I", "A">> >>,
          !.filters.MES = RangeMes,
                 !.ordering = << [by |-> <<"R", "I", "E", "S", "G", "O">>, dir |-> <<"d", "e",
                       "s", "c">>] >>],
    [Base EXCEPT !.metrics = << <<"R", "I", "E", "S", "G", "O">> >>, !.dimensions = << <<"S",
          "E", "C", "T", "O", "R">> >>,
                 !.filters.MES = MesCode(<<"L", "A", "S", "T", "_", "3", "M">>), !.limit = 50],
    [Base EXCEPT !.filters.MES = MesCode(<<"L", "A", "S", "T", "_", "A", "V", "A", "I", "L",
          "A", "B", "L", "E">>)],
    [Base EXCEPT !.filters.MES = RangeMes,
                 !.filters.where = <<"C", "A", "S", "T", "(", "M", "E", "S", " ", "A", "S",
                       " ", "I", "N", "T", "6", "4", ")", " ", " ", "B", "E", "T", "W", "E",
                       "E", "N", " ", "2", "0", "2", "3", "0", "6", " ", "A", "N", "D", " ",
                       "2", "0", "2", "3", "1", "2", "0">>],
    [Base EXCEPT !.filters.where = <<"E", "S", "T", "A", "D", "O", " ", "=", " ", "'", "c",
          "r", "e", "a", "t", "e", "d", "'">>],
    [Base EXCEPT !.filters.MES = MesDict("range_ym", IntVal(99999), IntVal(202312), Null)],
    [Base EXCEPT !.tables = << <<"o", "t", "h", "e", "r", "p", "r", "o", "j", ".", "d", "t",
          "w", "s", "g", "r", "_", "d", "s", "0", "1", ".", "B", "B", "D", "D", "_", "0", "1",
          "_", "L", "I", "G", "H", "T">> >>],
    [Base EXCEPT !.tables = << <<"d", "t", "w", "s", "g", "r", "_", "d", "s", "0", "1", ".",
          "S", "E", "C", "_", "A", "U", "D", "I", "T", "_", "L", "O", "G">> >>,
          !.metrics = <<>>,
                 !.dimensions = << <<"p", "r", "o", "v", "i", "n", "c", "i", "a">> >>],
    [Base EXCEPT !.ordering = << [by |-> <<" ", " ">>, dir |-> <<"A", "S", "C">>] >>],
    [Base EXCEPT !.dimensions = << <<"P", "R", "O", "V", "I", "N", "C", "I", "A">> >>,
                 !.ordering = << [by |-> <<" ", "P", "R", "O", "V", "I", "N", "C", "I", "A">>,
                       dir |-> <<"a", "s", "c">>],
                                 [by |-> <<"N", "O", "P", "E">>, dir |-> <<"s", "i", "d", "e",
                                       "w", "a", "y", "s">>] >>],
    [Base EXCEPT !.need_sql = FALSE, !.need_web = TRUE],
    [Base EXCEPT !.need_sql = FALSE, !.metrics = << <<"C", "O", "U", "N", "T", "(", "*", ")",
          " ", "A", "S", " ", "N">> >>] }
\* A call of answer(): the question, its flags, and what the LLM and the
\* deployment give.
Questions ==
  { [asked |-> TRUE, web_only |-> FALSE, prefer_web |-> FALSE, llm_ok |-> TRUE,
     data |-> d, catalog |-> c] : d \in LlmPlans, c \in Catalogs }
  \cup { [asked |-> a, web_only |-> w, prefer_web |-> p, llm_ok |-> FALSE,
          data |-> MinimalPlan(p \/ w), catalog |-> <<>>] :
            a \in BOOLEAN, w \in BOOLEAN, p \in BOOLEAN }

\* ------------------------------------------------------------- answer()

\* self._orc.plan(user_query, prefer_web=(prefer_web or web_only)) and the
\* choice of the branch.
AnswerPlan ==
  /\ pc = "start"
  /\ \E q \in Questions :
       /\ input' = q
       /\ IF ~q.asked
          THEN /\ err' = Raised(ValueError("EmptyQuestion"), ZeroBytes, "none")
               /\ pc' = "raised"
               /\ plan' = plan
          ELSE /\ plan' = orchestrator_plan(q.data, q.prefer_web \/ q.web_only)
               /\ pc' = IF q.web_only \/ (~plan'.need_sql /\ plan'.need_web)
                        THEN "web" ELSE "build"
               /\ err' = err
  /\ UNCHANGED <<sql, notes, last_mes, e1, res, ex, log, out>>

\* A web branch that goes on to the SQL path.
AnswerWebThenSql ==
  /\ pc = "web"
  /\ pc' = "build"
  /\ UNCHANGED <<plan, sql, notes, last_mes, e1, err, res, ex, log, input, out>>

\* The web branch: search, compose, final_check, _safe_log, return.
AnswerWeb ==
  /\ pc = "web"
  /\ out' = [NoAnswer EXCEPT !.ok = TRUE, !.branch = "web", !.notes = notes]
  /\ log' = Append(log, Event("audit_log", "answer", AUDIT_LOG_TABLE, ZeroBytes))
  /\ pc' = "done"
  /\ UNCHANGED <<plan, sql, notes, last_mes, e1, err, res, ex, input>>

\* build_sql_from_plan(plan): list_columns asks the warehouse for the schema
\* of the table of the plan; the statement goes to the first execute_sql.
AnswerBuild ==
  /\ pc = "build"
  /\ \/ \E e \in ClientErrors :
          /\ err' = Raised(e, ZeroBytes, "build")
          /\ pc' = "raised"
          /\ log' = Append(log, Event("get_table", "build", BuildTable(plan), ZeroBytes))
          /\ UNCHANGED <<sql, notes, ex>>
     \/ \E b \in {build_sql_from_plan(plan, BaseColumns, input.catalog)} :
          IF ~b.ok
          THEN /\ err' = Raised(b.exc, ZeroBytes, "build")
               /\ pc' = "raised"
               /\ log' = Append(log, Event("get_table", "build", BuildTable(plan), ZeroBytes))
               /\ UNCHANGED <<sql, notes, ex>>
          ELSE /\ notes' = notes \o b.notes
               /\ sql' = b.sql
               /\ ex' = Call("first", b.sql)
               /\ log' = log \o << Event("get_table", "build", BuildTable(plan), ZeroBytes),
                                   Event("execute_sql", "first", b.sql, ZeroBytes) >>
               /\ pc' = "first"
               /\ err' = err
  /\ UNCHANGED <<plan, last_mes, e1, res, input, out>>

\* res = execute_sql(sql) returned.
AnswerFirstReturned ==
  /\ pc = "first" /\ ex.step = "returned"
  /\ res' = ex.result
  /\ pc' = "post"
  /\ UNCHANGED <<plan, sql, notes, last_mes, e1, err, ex, log, input, out>>

\* execute_sql(sql) raised: a RuntimeError is caught and _get_last_mes()
\* submits its query; any other exception leaves answer().
AnswerFirstRaised ==
  /\ pc = "first" /\ ex.step = "raised"
  /\ IF CaughtForFallback(ex.exc)
     THEN /\ e1' = ex.exc
          /\ ex' = Call("lookup", LastMesQuery)
          /\ log' = Append(log, Event("execute_sql", "lookup", LastMesQuery, ZeroBytes))
          /\ pc' = "lookup"
          /\ err' = err
     ELSE /\ err' = ex.exc
          /\ pc' = "raised"
          /\ UNCHANGED <<e1, ex, log>>
  /\ UNCHANGED <<plan, sql, notes, last_mes, res, input, out>>

\* _get_last_mes() is back: with a period the statement is narrowed, the
\* note is added and the narrowed statement goes to execute_sql; without
\* one the caught exception is raised again.
AnswerNarrow ==
  /\ pc = "lookup" /\ ex.step \in {"returned", "raised"}
  /\ last_mes' = get_last_mes(ex)
  /\ IF Truthy(last_mes')
     THEN /\ notes' = Append(notes, Note("costly_fallback", IntToText(last_mes'.val), <<>>))
          /\ ex' = Call("fallback", fallback_sql(sql, last_mes'.val))
          /\ log' = Append(log, Event("execute_sql", "fallback", ex'.sql, ZeroBytes))
          /\ pc' = "fallback"
          /\ err' = err
     ELSE /\ err' = e1
          /\ pc' = "raised"
          /\ UNCHANGED <<notes, ex, log>>
  /\ UNCHANGED <<plan, sql, e1, res, input, out>>

\* A runner that keeps the built statement after the narrowed one returned.
AnswerFallbackKeepsSql ==
  /\ pc = "fallback" /\ ex.step = "returned"
  /\ res' = ex.result
  /\ pc' = "post"
  /\ UNCHANGED <<plan, sql, notes, last_mes, e1, err, ex, log, input, out>>

\* res = execute_sql(sql_fb) returned: sql = sql_fb.
AnswerFallbackReturned ==
  /\ pc = "fallback" /\ ex.step = "returned"
  /\ res' = ex.result
  /\ sql' = ex.sql
  /\ pc' = "post"
  /\ UNCHANGED <<plan, notes, last_mes, e1, err, ex, log, input, out>>

\* A runner that narrows and submits again when the narrowed statement raised.
AnswerFallbackRetried ==
  /\ pc = "fallback" /\ ex.step = "raised"
  /\ ex' = Call("fallback", fallback_sql(ex.sql, last_mes.val))
  /\ log' = Append(log, Event("execute_sql", "fallback", ex'.sql, ZeroBytes))
  /\ UNCHANGED <<pc, plan, sql, notes, last_mes, e1, err, res, input, out>>

\* execute_sql(sql_fb) raised inside the except block: its exception leaves
\* answer().
AnswerFallbackRaised ==
  /\ pc = "fallback" /\ ex.step = "raised"
  /\ err' = ex.exc
  /\ pc' = "raised"
  /\ UNCHANGED <<plan, sql, notes, last_mes, e1, res, ex, log, input, out>>

\* The audits, the composer, final_check, _safe_log and the return.
AnswerReturn ==
  /\ pc = "post"
  /\ notes' = notes \o PostNotes
  /\ out' = [ok |-> TRUE, branch |-> "sql", sql |-> sql, rows |-> res.rows,
             notes |-> notes', stats |-> res.estimated_bytes]
  /\ log' = Append(log, Event("audit_log", "answer", AUDIT_LOG_TABLE, ZeroBytes))
  /\ pc' = "done"
  /\ UNCHANGED <<plan, sql, last_mes, e1, err, res, ex, input>>

NoQuestion == [asked |-> FALSE]
Init ==
  /\ pc = "start" /\ plan = NoPlan /\ sql = <<>> /\ notes = <<>>
  /\ last_mes = Null /\ e1 = NoExc /\ err = NoExc /\ res = NoResult
  /\ ex = NoCall /\ log = <<>> /\ input = NoQuestion /\ out = NoAnswer
Next ==
  \/ AnswerPlan \/ AnswerWeb \/ AnswerBuild
  \/ ExecuteValidate \/ ExecuteDryRun \/ ExecuteJob
  \/ AnswerFirstReturned \/ AnswerFirstRaised \/ AnswerNarrow
  \/ AnswerFallbackReturned \/ AnswerFallbackRaised \/ AnswerReturn
Spec == Init /\ [][Next]_vars


\* ------------------------------------------------ calls of the SQL builder
\* build_sql_from_plan and the resolvers it is made of, called on their own:
\* each behaviour is one call, input holds the function and its arguments
\* and out what it returned (or the ValueError it raised).  The plans are
\* what any caller may hand over, not only what Orchestrator.plan lets
\* through.
InitBuilder ==
  /\ pc = "call" /\ plan = NoPlan /\ sql = <<>> /\ notes = <<>>
  /\ last_mes = Null /\ e1 = NoExc /\ err = NoExc /\ res = NoResult
  /\ ex = NoCall /\ log = <<>> /\ input = [fn |-> "none"] /\ out = NoAnswer
NextBuilder ==
  LET Metrics ==
        { <<>>, << <<>> >>, << <<"T", "O", "T", "A", "L", "_", "R", "I", "E", "S", "G",
              "O">> >>, << <<"R", "I", "E", "S", "G", "O">> >>,
          << <<"S", "U", "M", "(", "T", "O", "T", "A", "L", "_", "R", "I", "E", "S", "G", "O",
                ")">> >>, << <<"S", "U", "M", "(", "T", "O", "T", "A", "L", "_", "R", "I", "E",
                "S", "G", "O", ")", " ", "A", "S", " ", "R", "I", "E", "S", "G", "O">> >>,
          << <<"T", "O", "T", "A", "L", "_", "R", "I", "E", "S", "G", "O", ";">> >>, << <<"S",
                "U", "M", "(", "T", "O", "T", "A", "L", "_", "R", "I", "E", "S", "G", "O", ")",
                " ", "A", "S", " ", "R", ";", " ", "D", "R", "O", "P", " ", "T", "A", "B", "L",
                "E", " ", "X">> >>,
          << <<"S", "U", "M", "(", "N", "O", "P", "E", ")", " ", "A", "S", " ", "X">> >>,
                << <<"S", "U", "M", "(", "C", "A", "S", "T", "(", "T", "O", "T", "A", "L", "_",
                "R", "I", "E", "S", "G", "O", " ", "A", "S", " ", "I", "N", "T", "6", "4", ")",
                " ", "+", " ", "N", "O", "P", "E", ")", " ", "A", "S", " ", "X">> >>,
          << <<"C", "O", "U", "N", "T", "(", "*", ")", " ", "A", "S", " ", "N">>, <<"M", "A",
                "X", "(", "C", "A", "S", "T", "(", "M", "E", "S", " ", "A", "S", " ", "I", "N",
                "T", "6", "4", ")", ")", " ", "A", "S", " ", "M">> >> }
      Dimensions ==
        { <<>>, << <<"P", "R", "O", "V", "I", "N", "C", "I", "A">> >>, << <<"p", "r", "o", "v",
              "i", "n", "c", "i", "a">> >>, << <<"S", "E", "C", "T", "O", "R">> >>, << <<"s",
              "e", "c", "t", "o", "r">> >>,
          << <<"P", "R", "O", "V", "I", "N", "C", "I", "A", "S">> >>, << <<"Z", "Z", "Z">> >>,
                << <<"E", "S", "T", "A", "D", "O">>, <<"M", "e", "s">> >> }
      Limits == {0, 1, LIMIT_DEFAULT, MAX_ROWS_RETURNED + 1}
      Periods == {190000, 190001, 202312, 299912, 299913}
      MesFilters ==
        {NoMes, MesCode(<<"L", "A", "S", "T", "_", "3", "M">>), MesDict("year", Null, Null,
              IntVal(2023))}
        \cup {MesDict(t, IntVal(a), IntVal(b), Null) :
                t \in {"range_ym", "none"}, a \in Periods, b \in Periods}
      Tables == { <<>>, <<TABLA_BASE_FQN>>, << <<"d", "t", "w", "s", "g", "r", "_", "d", "s",
            "0", "1", ".", "S", "E", "C", "_", "A", "U", "D", "I", "T", "_", "L", "O",
            "G">> >> }
      RawTables ==
        { <<>>, <<" ", " ">>, <<"<", "<", "T", "A", "B", "L", "A", ">", ">">>, <<"T", "A", "B",
              "L", "A", "_", "B", "A", "S", "E", "_", "F", "Q", "N">>, <<"<", "t", "a", "b",
              "l", "a", "_", "b", "a", "s", "e", "_", "f", "q", "n", ">">>, <<"B", "B", "D",
              "D", "_", "0", "1", "_", "L", "I", "G", "H", "T">>,
          <<"d", "t", "w", "s", "g", "r", "_", "d", "s", "0", "1", ".", "S", "E", "C", "_",
                "A", "U", "D", "I", "T", "_", "L", "O", "G">>, <<"d", "t", "w", "s", "g", "r",
                "_", "d", "s", "0", "1", ".", "B", "B", "D", "D", "_", "0", "1", "_", "L", "I",
                "G", "H", "T">>,
          <<"o", "t", "h", "e", "r", "p", "r", "o", "j", ".", "d", "t", "w", "s", "g", "r",
                "_", "d", "s", "0", "1", ".", "B", "B", "D", "D", "_", "0", "1", "_", "L", "I",
                "G", "H", "T">>, <<Bq, "o", "t", "h", "e", "r", "p", "r", "o", "j", ".", "d",
                "t", "w", "s", "g", "r", "_", "d", "s", "0", "1", ".", "B", "B", "D", "D", "_",
                "0", "1", "_", "L", "I", "G", "H", "T", Bq>>,
          <<" ", "a", ".", "b", ".", "c", " ">>, <<"a", ".", "b", ".", "c", ".", "d">>, <<"a",
                ".", ".", "b">>, TABLA_BASE_FQN }
      Pairs(val) ==
        { <<>>, << [col |-> <<"E", "S", "T", "A", "D", "O">>, val |-> val] >>,
          << [col |-> <<"N", "O", "P", "E">>, val |-> val], [col |-> <<"e", "s", "t", "a", "d",
                "o">>, val |-> val] >>,
          << [col |-> <<"E", "S", "T", "A", "D", "O", " ", "=", " ", "E", "S", "T", "A", "D",
                "O", " ", "O", "R", " ", "M", "E", "S">>, val |-> val] >> }
      Filters ==
        {[NoFilters EXCEPT !.eq = e, !.isin = i, !.like = l, !.ilike = il] :
           e \in Pairs(TextVal(<<"O", "'", "N", "e", "i", "l", "l">>)),
           i \in Pairs(<<IntVal(1), Null, TextVal(<<"a">>)>>),
           l \in Pairs(TextVal(<<"a", "%">>)) \ {<<>>}, il \in Pairs(TextVal(<<"%",
                 "b">>)) \ {<<>>}}
      Base == MinimalPlan(FALSE)
      Plans ==
        {[Base EXCEPT !.metrics = m, !.dimensions = d, !.limit = l] :
           m \in Metrics, d \in Dimensions, l \in Limits}
        \cup {[Base EXCEPT !.metrics = m, !.filters.MES = f, !.tables = t] :
                m \in { <<>>, << <<"S", "U", "M", "(", "T", "O", "T", "A", "L", "_", "R", "I",
                      "E", "S", "G", "O", ")", " ", "A", "S", " ", "R", "I", "E", "S", "G",
                      "O">> >> },
                f \in MesFilters, t \in Tables}
        \cup {[Base EXCEPT !.filters = f] : f \in Filters}
      Returned(call, result) ==
        /\ pc' = "returned"
        /\ input' = call
        /\ out' = result
        /\ UNCHANGED <<plan, sql, notes, last_mes, e1, err, res, ex, log>>
  IN \/ \E pl \in Plans, catalog \in Catalogs :
          /\ pc = "call"
          /\ Returned([fn |-> "build_sql_from_plan", plan |-> pl, catalog |-> catalog],
                      build_sql_from_plan(pl, BaseColumns, catalog))
     \/ \E ms \in Metrics \ {<<>>}, k \in 1..2, catalog \in Catalogs :
          /\ pc = "call" /\ k <= Len(ms)
          /\ Returned([fn |-> "_resolve_metric_expr", m |-> ms[k], catalog |-> catalog],
                      resolve_metric_expr(ms[k], catalog))
     \/ \E ds \in Dimensions \ {<<>>}, k \in 1..2 :
          /\ pc = "call" /\ k <= Len(ds)
          /\ Returned([fn |-> "_resolve_dim", dim |-> ds[k], cols |-> BaseColumns],
                      resolve_dim(ds[k], BaseColumns))
     \/ \E t \in RawTables :
          /\ pc = "call"
          /\ Returned([fn |-> "_resolve_table_identifier", t |-> t],
                      [ident |-> resolve_table_identifier(t)])
SpecBuilder == InitBuilder /\ [][NextBuilder]_vars

\* ------------------------------------------------ tools/gcs_documents.py
\* GCSDocumentLoader.load_document, called on its own on a loader made for
\* bucket_name and default_prefix: input holds the loader and the argument,
\* out what the call has so far (the resolved name, then the payload), err
\* the exception it raised and log its calls of the bucket.

\* A _resolve_blob_name that takes a gs:// URI of any bucket.
resolve_blob_name_any_bucket(blob_name, bucket_name, default_prefix) ==
  LET name == Strip(blob_name)
      rest == SubSeq(name, 6, Len(name))
      Cut(s, stops) == MinOf({i \in 1..Len(s) : s[i] \in stops} \cup {Len(s) + 1})
      path == SubSeq(rest, Cut(rest, {"/", "?", "#"}), Cut(rest, {"?", "#"}) - 1)
      bare == IF StartsAt(name, 1, <<"g", "s", ":", "/", "/">>) THEN path ELSE name
      Prefixed(n) ==
        IF Len(default_prefix) = 0 THEN n
        ELSE IF n = default_prefix \/ StartsAt(n, 1, default_prefix \o <<"/">>) THEN n
        ELSE IF Len(n) > 0 THEN default_prefix \o <<"/">> \o n ELSE default_prefix
  IN IF Len(name) = 0 THEN [exc |-> ValueError("EmptyBlobName"), name |-> <<>>]
     ELSE [exc |-> NoError, name |-> Prefixed(SubSeq(bare, SkipIn(bare, 1, {"/"}), Len(bare)))]
\* _resolve_blob_name of a loader with self.bucket_name and
\* self.default_prefix.  urlparse: the netloc of gs://... runs up to the
\* first of / ? #, the path from there up to the first of ? #.
resolve_blob_name(blob_name, bucket_name, default_prefix) ==
  LET name == Strip(blob_name)
      rest == SubSeq(name, 6, Len(name))
      Cut(s, stops) == MinOf({i \in 1..Len(s) : s[i] \in stops} \cup {Len(s) + 1})
      netloc == SubSeq(rest, 1, Cut(rest, {"/", "?", "#"}) - 1)
      path == SubSeq(rest, Cut(rest, {"/", "?", "#"}), Cut(rest, {"?", "#"}) - 1)
      bare == IF StartsAt(name, 1, <<"g", "s", ":", "/", "/">>) THEN path ELSE name
      Prefixed(n) ==
        IF Len(default_prefix) = 0 THEN n
        ELSE IF n = default_prefix \/ StartsAt(n, 1, default_prefix \o <<"/">>) THEN n
        ELSE IF Len(n) > 0 THEN default_prefix \o <<"/">> \o n ELSE default_prefix
  IN IF Len(name) = 0 THEN [exc |-> ValueError("EmptyBlobName"), name |-> <<>>]
     ELSE IF StartsAt(name, 1, <<"g", "s", ":", "/", "/">>) /\ Len(netloc) = 0
     THEN [exc |-> ValueError("MalformedUri"), name |-> <<>>]
     ELSE IF StartsAt(name, 1, <<"g", "s", ":", "/", "/">>) /\ netloc # bucket_name
     THEN [exc |-> ValueError("BucketMismatch"), name |-> <<>>]
     ELSE [exc |-> NoError, name |-> Prefixed(SubSeq(bare, SkipIn(bare, 1, {"/"}), Len(bare)))]

NextLoader ==
  LET Buckets == {<<"d", "e", "m", "o", "-", "b", "u", "c", "k", "e", "t">>,
                  <<"o", "t", "r", "o", "-", "b", "u", "c", "k", "e", "t">>}
      \* default_prefix as given to the constructor, which strips its "/"
      Prefixes == {<<"d", "o", "c", "s">>, <<>>, <<"/", "d", "o", "c", "s", "/">>}
      BlobNames ==
        { <<"s", "a", "m", "p", "l", "e", ".", "d", "o", "c", "x">>, <<" ", "/", "s", "a", "m",
              "p", "l", "e", ".", "d", "o", "c", "x", " ">>, <<"d", "o", "c", "s", "/", "s",
              "a", "m", "p", "l", "e", ".", "d", "o", "c", "x">>, <<"d", "o", "c", "s">>,
              <<"d", "o", "c", "s", "2", "/", "s", "a", "m", "p", "l", "e", ".", "d", "o", "c",
              "x">>,
          <<"s", "u", "b", "/", "a", ".", "D", "O", "C", "X">>, <<"n", "o", "t", "e", "s", ".",
                "t", "x", "t">>, <<>>, <<" ", " ">>, <<"G", "S", ":", "/", "/", "o", "t", "r",
                "o", "-", "b", "u", "c", "k", "e", "t", "/", "s", "a", "m", "p", "l", "e", ".",
                "d", "o", "c", "x">>,
          <<"g", "s", ":", "/", "/", "d", "e", "m", "o", "-", "b", "u", "c", "k", "e", "t",
                "/", "d", "o", "c", "s", "/", "s", "a", "m", "p", "l", "e", ".", "d", "o", "c",
                "x">>, <<"g", "s", ":", "/", "/", "d", "e", "m", "o", "-", "b", "u", "c", "k",
                "e", "t", "/", "s", "a", "m", "p", "l", "e", ".", "d", "o", "c", "x">>,
          <<"g", "s", ":", "/", "/", "d", "e", "m", "o", "-", "b", "u", "c", "k", "e", "t",
                "/", "/", "s", "a", "m", "p", "l", "e", ".", "d", "o", "c", "x">>, <<"g", "s",
                ":", "/", "/", "d", "e", "m", "o", "-", "b", "u", "c", "k", "e", "t">>, <<"g",
                "s", ":", "/", "/", "d", "e", "m", "o", "-", "b", "u", "c", "k", "e", "t", "/",
                "a", ".", "d", "o", "c", "x", "?", "v", "=", "1">>,
          <<"g", "s", ":", "/", "/", "o", "t", "r", "o", "-", "b", "u", "c", "k", "e", "t",
                "/", "d", "o", "c", "s", "/", "s", "a", "m", "p", "l", "e", ".", "d", "o", "c",
                "x">>, <<"g", "s", ":", "/", "/", "o", "t", "r", "o", "-", "b", "u", "c", "k",
                "e", "t">>, <<"g", "s", ":", "/", "/", "/", "s", "a", "m", "p", "l", "e", ".",
                "d", "o", "c", "x">>,
          <<"g", "s", ":", "/", "/", "d", "e", "m", "o", "-", "b", "u", "c", "k", "e", "t",
                "-", "2", "/", "s", "a", "m", "p", "l", "e", ".", "d", "o", "c", "x">>, <<"g",
                "s", ":", "/", "/", "D", "E", "M", "O", "-", "B", "U", "C", "K", "E", "T", "/",
                "s", "a", "m", "p", "l", "e", ".", "d", "o", "c", "x">>,
          <<"d", "o", "c", "s", "/">>,
          <<"g", "s", ":", "/", "/", "d", "e", "m", "o", "-", "b", "u", "c", "k", "e", "t", "/", "d", "o", "c", "s", "/", "a", "#", "b", ".", "d", "o", "c", "x">> }
      \* self.allowed_extensions, by default
      is_allowed(name) ==
        Len(name) >= 5 /\ StartsAt(Lower(name), Len(name) - 4, <<".", "d", "o", "c", "x">>)
      Raise(e) == /\ pc' = "raised" /\ err' = Raised(e, ZeroBytes, "load_document")
      Loader == "load_document"
  IN \/ \E b \in BlobNames, bucket \in Buckets, p \in Prefixes :
          /\ pc = "call"
          /\ input' = [fn |-> Loader, blob_name |-> b, bucket_name |-> bucket,
                       default_prefix |-> StripIn(p, {"/"})]
          /\ \E r \in {resolve_blob_name(b, bucket, StripIn(p, {"/"}))} :
               IF r.exc # NoError THEN Raise(r.exc) /\ out' = out
               ELSE IF ~is_allowed(r.name)
               THEN Raise([type |-> "DocumentParseError", what |-> "Extension"]) /\ out' = out
               ELSE /\ pc' = "get_blob" /\ err' = err
                    /\ out' = [name |-> r.name]
          /\ UNCHANGED <<plan, sql, notes, last_mes, e1, res, ex, log>>
     \/ /\ pc = "get_blob"
        /\ log' = Append(log, Event("get_blob", Loader, out.name, ZeroBytes))
        /\ \/ Raise([type |-> "FileNotFoundError", what |-> "NoBlob"])
           \/ pc' = "download" /\ err' = err
        /\ UNCHANGED <<plan, sql, notes, last_mes, e1, res, ex, input, out>>
     \/ /\ pc = "download"
        /\ log' = Append(log, Event("download", Loader, out.name, ZeroBytes))
        /\ \/ Raise([type |-> "DocumentParseError", what |-> "Docx"]) /\ out' = out
           \/ /\ pc' = "returned" /\ err' = err
              /\ out' = [bucket |-> input.bucket_name, name |-> out.name,
                         uri |-> RStripIn(<<"g", "s", ":", "/",
                               "/">> \o input.bucket_name \o <<"/">> \o out.name,
                                          {"/"})]
        /\ UNCHANGED <<plan, sql, notes, last_mes, e1, res, ex, input>>
SpecLoader == InitBuilder /\ [][NextLoader]_vars

\* ------------------------------------------------------------ properties

\* The positions of the log where caller did op.
Events(op, caller) == {k \in DOMAIN log : log[k].op = op /\ log[k].caller = caller}
\* The calls that reach the warehouse.
WarehouseOps == {"get_table", "dry_run", "dry_run_failed", "job", "audit_log"}
\* An estimate above the threshold, as the numbers compare.
AboveThreshold(est) == BytesGT(est, BYTES_THRESHOLD)
\* The statement was refused for cost by the dry-run of caller.
CostRefused(caller) == \E k \in Events("dry_run", caller) : AboveThreshold(log[k].est)

\* C1: in one answer() the built statement goes to execute_sql at most once
\* and a narrowed statement at most once, the narrowed one after the built
\* one; when the dry-run of the narrowed statement is above the threshold
\* nothing more is rewritten, submitted or run.
C1_FallbackAtMostOnce ==
  /\ Cardinality(Events("execute_sql", "first")) <= 1
  /\ Cardinality(Events("execute_sql", "fallback")) <= 1
  /\ \A k \in Events("execute_sql", "fallback") :
        \E j \in Events("execute_sql", "first") : j < k
  /\ \A k \in Events("dry_run", "fallback") : AboveThreshold(log[k].est) => k = Len(log)
\* The narrowed statement was refused for cost and answer() has ended.
C1_Witness ==
  /\ pc = "raised" /\ err.call = "fallback" /\ err.what = "QueryTooExpensive"
  /\ CostRefused("first") /\ CostRefused("fallback")

\* C2: the max-period lookup and the narrowed statement are submitted only
\* after the first execute_sql was refused for cost.
C2_FallbackOnlyAfterCostRefusal ==
  \A k \in Events("execute_sql", "lookup") \cup Events("execute_sql", "fallback") :
     e1.what = "QueryTooExpensive" /\ CostRefused("first")
\* The narrowed statement was submitted after a failure of the client.
C2_Witness ==
  /\ Events("execute_sql", "fallback") # {}
  /\ e1.what = "client" /\ ~CostRefused("first")

\* C3: when the first statement and the narrowed statement are both refused
\* for cost, answer() ends with the error raised for the first statement.
C3_OriginalCostErrorPropagates ==
  (pc = "raised" /\ CostRefused("first") /\ CostRefused("fallback")) => err = e1
\* Both were refused, with different estimates, and the error that leaves
\* answer() carries the estimate of the narrowed statement.
C3_Witness ==
  /\ pc = "raised" /\ CostRefused("first") /\ CostRefused("fallback")
  /\ err.call = "fallback" /\ err.est # e1.est

\* The max-period lookup is over and gave no value: it raised, gave no row
\* or gave NULL.
LookupGaveNothing ==
  /\ ex.caller = "lookup"
  /\ \/ ex.step = "raised"
     \/ ex.step = "returned" /\ (ex.result.rows = 0 \/ ex.result.first = Null)
\* C4: after a cost refusal of the first statement and a lookup without a
\* value, the step answer() takes raises the caught error again: nothing is
\* rewritten and nothing is submitted.
C4_NoPeriodReraisesOriginal ==
  [][ (pc = "lookup" /\ e1.what = "QueryTooExpensive" /\ LookupGaveNothing)
        => (pc' = "raised" /\ err' = e1 /\ UNCHANGED <<ex, log, sql, notes>>) ]_vars
\* answer() ended with the first error after a lookup without a value.
C4_Witness ==
  /\ pc = "raised" /\ LookupGaveNothing /\ CostRefused("first")
  /\ err = e1 /\ Events("execute_sql", "fallback") = {}

\* C5: a dry-run estimate above BYTES_THRESHOLD is the last thing its call
\* does: the call raises QueryTooExpensive with the estimate and starts no
\* job; an estimate equal to or below the threshold is followed by the job
\* of the same statement.
C5_CostRefusalBeforeJob ==
  \A k \in DOMAIN log : log[k].op = "dry_run" =>
    IF AboveThreshold(log[k].est)
    THEN /\ Events("job", log[k].caller) = {}
         /\ \A j \in DOMAIN log : j > k => log[j].caller # log[k].caller
         /\ k = Len(log) =>
              /\ ex.step = "raised"
              /\ ex.exc = Raised(RuntimeError("QueryTooExpensive"), log[k].est, log[k].caller)
    ELSE \/ k = Len(log) /\ ex.caller = log[k].caller /\ ex.step = "job"
         \/ /\ k < Len(log)
            /\ log[k + 1] = [log[k] EXCEPT !.op = "job"]
\* The first statement was refused and the narrowed one, estimated at
\* exactly the threshold, ran.
C5_Witness ==
  /\ CostRefused("first")
  /\ \E k \in Events("dry_run", "fallback") :
        log[k].est = BYTES_THRESHOLD /\ Events("job", "fallback") # {}

\* C6: every query job of answer() comes after validate_sql_readonly,
\* validate_allowlist and the dry-run of the same call accepted the same
\* statement, in that order and once each.
C6_ValidatedAndDryRunBeforeJob ==
  \A k \in DOMAIN log : log[k].op = "job" =>
    /\ log[k].caller \in {"first", "lookup", "fallback"}
    /\ \A op \in {"execute_sql", "readonly", "allowlist", "dry_run", "job"} :
          Cardinality(Events(op, log[k].caller)) = 1
    /\ \E a, b, c \in 1..k :
          /\ a < b /\ b < c /\ c < k
          /\ log[a].op = "readonly" /\ log[b].op = "allowlist" /\ log[c].op = "dry_run"
          /\ \A j \in {a, b, c} : log[j].caller = log[k].caller /\ log[j].sql = log[k].sql
\* The first statement was refused for cost; the lookup and the narrowed
\* statement ran and answer() returned.
C6_Witness ==
  /\ Events("job", "first") = {}
  /\ Events("job", "lookup") # {}
  /\ Events("job", "fallback") # {}
  /\ pc = "done"

\* A reference inside the allowlists of the settings.
InsideAllowlists(r) ==
  /\ (r[1] \o <<".">> \o r[2]) \in ALLOWED_DATASETS
  /\ ALLOWED_TABLES # {} => RefName(r) \in ALLOWED_TABLES
FirstToken(s) == SubSeq(s, SkipSpaces(s, 1), SkipIn(s, SkipSpaces(s, 1), WordChars) - 1)
StartsReadOnly(s) ==
  Upper(FirstToken(s)) \in { <<"S","E","L","E","C","T">>, <<"W","I","T","H">> }
\* A forbidden keyword stands in s as a whole token, in any case.
HasForbiddenToken(s) ==
  \E n \in DOMAIN FORBIDDEN_KEYWORDS : \E i \in DOMAIN s :
     /\ StartsAtCI(s, i, FORBIDDEN_KEYWORDS[n])
     /\ WordBoundary(s, i)
     /\ WordBoundary(s, i + Len(FORBIDDEN_KEYWORDS[n]))
\* execute_sql is past its guardrails for the statement of the bare caller.
Validated == pc = "direct" /\ ex.step \notin {"idle", "validate"}

\* C8: a statement that starts with SELECT or WITH is rejected with
\* ForbiddenOperation exactly when a forbidden keyword stands in it as a
\* whole token.
C8_ForbiddenExactlyWholeToken ==
  (Validated /\ StartsReadOnly(ex.sql)) =>
     ((ex.step = "raised" /\ ex.exc.what = "ForbiddenOperation") <=> HasForbiddenToken(ex.sql))
\* A statement without a forbidden token was rejected with ForbiddenOperation.
C8_Witness ==
  /\ Validated /\ StartsReadOnly(ex.sql) /\ ~HasForbiddenToken(ex.sql)
  /\ ex.step = "raised" /\ ex.exc.what = "ForbiddenOperation"

C10_NotReadOnlyNoWarehouseCall ==
  (Validated /\ ~StartsReadOnly(input.text)) =>
     /\ validate_sql_readonly(input.text) = ValueError("NotReadOnly")
     /\ ex.step = "raised" /\ ex.exc.type = "ValueError"
     /\ ex.exc.what = IF Len(Strip(input.text)) = 0 THEN "EmptySql" ELSE "NotReadOnly"
     /\ \A k \in DOMAIN log : log[k].op \notin WarehouseOps
\* A statement that starts with the letters of SELECT but not with the token
\* was rejected.
C10_Witness ==
  /\ Validated /\ ~StartsReadOnly(input.text)
  /\ StartsAt(input.text, 1, <<"S","E","L","E","C","T">>)
  /\ ex.step = "raised" /\ ex.exc.what = "NotReadOnly"

\* A finished call of fn, and a build_sql_from_plan that returned a result.
Called(fn) == pc = "returned" /\ input.fn = fn
Built == Called("build_sql_from_plan") /\ out.ok
\* s ends with w (str.endswith).
EndsWith(s, w) == StartsAt(s, Len(s) - Len(w) + 1, w) /\ Len(w) <= Len(s)
\* The table the plan of the call names, resolved and quoted.
PlanTable ==
  quote_fqn(Strip(resolve_table_identifier(
     IF Len(input.plan.tables) = 0 THEN <<>> ELSE input.plan.tables[1])))

\* C11: every statement build_sql_from_plan returns holds SELECT, the
\* resolved table and, as its last clause, a LIMIT of at most
\* MAX_ROWS_RETURNED, whatever limit the plan asks for.
C11_LimitWithinMaximum ==
  Built =>
    /\ StartsAt(out.sql, 1, <<"S", "E", "L", "E", "C", "T">>)
    /\ Contains(out.sql, <<"\n", "F", "R", "O", "M", " ">> \o PlanTable)
    /\ EndsWith(out.sql, <<"\n", "L", "I", "M", "I", "T", " ">> \o IntToText(out.limit))
    /\ out.limit <= MAX_ROWS_RETURNED
\* A plan asked for more rows than the maximum and its statement was built
\* with the limit it asked for.
C11_Witness ==
  /\ Built /\ input.plan.limit > MAX_ROWS_RETURNED
  /\ EndsWith(out.sql, <<"\n", "L", "I", "M", "I", "T", " ">> \o IntToText(input.plan.limit))

\* A range predicate on the period starts at s[i]: CAST(MES AS INT64)
\* BETWEEN, whatever its two bounds are.
MesRangeAt(s, i) ==
  MatchEnd(s, i, <<Lit(<<"C", "A", "S", "T", "(", "M", "E", "S", " ", "A", "S", " ", "I", "N",
        "T", "6", "4", ")">>), Ws, Lit(<<"B", "E", "T", "W", "E", "E", "N">>), Ws>>, 1) # 0
HasMesRange(s) == \E i \in 1..Len(s) : MesRangeAt(s, i)
\* answer() has narrowed the statement (sql) to the period of the lookup
\* and submitted the narrowed one (ex.sql).
Narrowed == pc = "fallback" /\ ex.caller = "fallback" /\ last_mes.kind = "int"
PeriodClause == <<"C", "A", "S", "T", "(", "M", "E", "S", " ", "A", "S", " ", "I", "N", "T",
      "6", "4", ")", " ", "=", " ">> \o IntToText(last_mes.val)
\* C12: with a range predicate in the statement the narrowed statement is the
\* original up to its first range, then the clause for the period in its
\* place, holds no range any more and the period clause never runs on into
\* another digit; without one it is the original with " AND " (the statement
\* has a WHERE) or " WHERE " and the clause for the period appended.
C12_FallbackReplacesRangeOrAppends ==
  Narrowed =>
    IF HasMesRange(sql)
    THEN /\ ~HasMesRange(ex.sql)
         /\ \E i \in 1..Len(sql) :
              /\ MesRangeAt(sql, i) /\ \A k \in 1..(i - 1) : ~MesRangeAt(sql, k)
              /\ StartsAt(ex.sql, 1, SubSeq(sql, 1, i - 1) \o PeriodClause)
         /\ \A i \in 1..Len(ex.sql) :
              StartsAt(ex.sql, i, PeriodClause) =>
                 \/ i + Len(PeriodClause) > Len(ex.sql)
                 \/ ex.sql[i + Len(PeriodClause)] \notin Digits
    ELSE ex.sql = sql \o (IF Search(sql, <<Wb, LitCI(<<"W", "H", "E", "R", "E">>), Wb>>)
                          THEN <<" ", "A", "N", "D", " ">> ELSE <<" ", "W", "H", "E", "R", "E",
                                " ">>) \o PeriodClause
\* The statement of a LAST_3M plan was narrowed: its range is still there and
\* the clause for the period stands after its LIMIT.
C12_Witness ==
  /\ Narrowed /\ HasMesRange(sql) /\ HasMesRange(ex.sql)
  /\ \E n \in {50, LIMIT_DEFAULT} :
       EndsWith(ex.sql, <<"\n", "L", "I", "M", "I", "T", " ">> \o IntToText(n) \o <<" ", "A",
             "N", "D", " ">> \o PeriodClause)

\* C13: a metric token with a semicolon never brings a semicolon into the
\* statement: the expression _resolve_metric_expr returns for it holds none,
\* and neither does the statement build_sql_from_plan assembles from a plan
\* with such a token.
C13_MetricSemicolonsStripped ==
  /\ (Called("_resolve_metric_expr") /\ Contains(input.m, <<";">>)) =>
        ~Contains(out.expr, <<";">>)
  /\ (/\ Called("build_sql_from_plan")
      /\ \E k \in 1..Len(input.plan.metrics) : Contains(input.plan.metrics[k], <<";">>)) =>
        /\ ~Contains(out.sql, <<";">>)
        /\ \A k \in 1..Len(out.metrics) : ~Contains(out.metrics[k], <<";">>)
\* A statement was built from a token that went on after a semicolon: the
\* rest of the token is in the statement, the semicolon is not.
C13_Witness ==
  /\ Built
  /\ \E k \in 1..Len(input.plan.metrics) :
       Contains(input.plan.metrics[k], <<";", " ", "D", "R", "O", "P", " ", "T", "A", "B", "L",
             "E", " ", "X">>)
  /\ Contains(out.sql, <<" ", "D", "R", "O", "P", " ", "T", "A", "B", "L", "E", " ", "X",
        "\n">>)

\* The identifiers an expression refers to: its words that start with a
\* letter or "_", less the ignored names, the word AS and the name that
\* follows an AS (an alias or the type of a CAST).
WordAt(s, i) == SubSeq(s, i, SkipIn(s, i, WordChars) - 1)
ReferredTo(s) ==
  LET WordStarts == {i \in 1..Len(s) :
                       s[i] \in IdentStart /\ (i = 1 \/ s[i - 1] \notin WordChars)}
      AfterAs(i) ==
        \E j \in WordStarts :
           /\ Upper(WordAt(s, j)) = <<"A", "S">>
           /\ j + 2 < i /\ \A k \in (j + 2)..(i - 1) : s[k] \in SpaceChars
  IN {WordAt(s, i) : i \in {j \in WordStarts :
                              /\ Upper(WordAt(s, j)) \notin MetricIgnore \cup {<<"A", "S">>}
                              /\ ~AfterAs(j)}}
\* The metrics of the plan of the call, expanded.
Expanded ==
  [k \in 1..Len(input.plan.metrics) |->
     resolve_metric_expr(input.plan.metrics[k], input.catalog).expr]
NotAColumn(name) == ~InSeq(name, BaseColumns) /\ FirstCiEqual(name, BaseColumns) = <<>>
\* C14: a build of a plan with a metric that refers to something that is no
\* column of the table returns no statement, and fails with
\* MetricColumnNotFound when the dimensions of the plan were found.
C14_MetricIdentifiersAreColumns ==
  (/\ Called("build_sql_from_plan")
   /\ \E k \in 1..Len(input.plan.metrics) : \E name \in ReferredTo(Expanded[k]) :
         NotAColumn(name)) =>
     /\ ~out.ok /\ out.sql = <<>>
     /\ out.exc.what \in {"MetricColumnNotFound", "DimensionNotFound"}
     /\ out.exc.what = "DimensionNotFound" =>
          \E k \in 1..Len(input.plan.dimensions) :
             ~resolve_dim(input.plan.dimensions[k], BaseColumns).ok
\* A statement was built around a metric that adds NOPE, which is no column,
\* to a CAST.
C14_Witness ==
  /\ Built
  /\ \E k \in 1..Len(out.metrics) :
       /\ <<"N", "O", "P", "E">> \in ReferredTo(out.metrics[k])
       /\ Contains(out.metrics[k], <<"C", "A", "S", "T", "(", "T", "O", "T", "A", "L", "_",
             "R", "I", "E", "S", "G", "O", " ", "A", "S", " ", "I", "N", "T", "6", "4", ")",
             " ", "+", " ", "N", "O", "P", "E">>)
  /\ NotAColumn(<<"N", "O", "P", "E">>)

\* The expression names its result: the word AS and a name after it.
HasAlias(expr) ==
  \E i \in 1..Len(expr) : MatchEnd(expr, i, <<Wb, LitCI(<<"A", "S">>), Ws, Id>>, 1) # 0
CleanToken == Sub(Strip(input.m), <<Run({";"})>>, <<" ">>)
BareTable == StripIn(Strip(input.t), {Bq})
IsPlaceholder ==
  \/ Contains(BareTable, <<"<", "<">>) \/ Contains(BareTable, <<">", ">">>)
  \/ Upper(BareTable) \in {<<"T", "A", "B", "L", "A", "_", "B", "A", "S", "E", "_", "F", "Q",
        "N">>, <<"<", "T", "A", "B", "L", "A", "_", "B", "A", "S", "E", "_", "F", "Q", "N",
        ">">>}
\* C16: _resolve_table_identifier gives the default table for a raw value
\* that is empty, holds a placeholder or has not exactly two dots, and the
\* value between backquotes for one with exactly two dots.
C16_OnlyThreePartNamesKept ==
  Called("_resolve_table_identifier") =>
    out.ident = IF Len(BareTable) = 0 \/ IsPlaceholder \/ CountDots(BareTable) # 2
                THEN TABLA_BASE_FQN
                ELSE <<Bq>> \o BareTable \o <<Bq>>
\* A name of two parts came back as a table of the project that is not the
\* default table.
C16_Witness ==
  /\ Called("_resolve_table_identifier")
  /\ input.t = <<"d", "t", "w", "s", "g", "r", "_", "d", "s", "0", "1", ".", "S", "E", "C",
        "_", "A", "U", "D", "I", "T", "_", "L", "O", "G">> /\ CountDots(BareTable) = 1
  /\ out.ident = <<Bq>> \o PROJECT_ID \o <<".">> \o input.t \o <<Bq>>
  /\ out.ident # TABLA_BASE_FQN

\* C17: a dimension that is resolved to a column of another spelling comes
\* back from _resolve_dim with a note, and the notes of the build hold a note
\* for every dimension of the plan that was replaced.
C17_NoSubstitutionWithoutNote ==
  /\ (Called("_resolve_dim") /\ out.ok /\ out.col # input.dim) =>
        /\ out.note # NoNote
        /\ out.note.a = input.dim /\ out.note.b = out.col
  /\ Built =>
        \A k \in 1..Len(input.plan.dimensions) :
           out.dims[k] # input.plan.dimensions[k] =>
              \E n \in 1..Len(out.notes) :
                 /\ out.notes[n].note \in {"dim_synonym", "dim_closest"}
                 /\ out.notes[n].a = input.plan.dimensions[k]
                 /\ out.notes[n].b = out.dims[k]
\* provincia came back as PROVINCIA, without a note.
C17_Witness ==
  /\ Called("_resolve_dim") /\ out.ok
  /\ input.dim = <<"p", "r", "o", "v", "i", "n", "c", "i", "a">> /\ out.col = <<"P", "R", "O",
        "V", "I", "N", "C", "I", "A">>
  /\ out.note = NoNote

\* C18: the dimension sector, which is no column of a table that has
\* SECTOR_COV19, is resolved to SECTOR_COV19 through the synonyms, with the
\* note of the substitution.
C18_SectorResolvedBySynonym ==
  (/\ Called("_resolve_dim") /\ input.dim = <<"s", "e", "c", "t", "o", "r">>
   /\ FirstCiEqual(input.dim, input.cols) = <<>>
   /\ InSeq(<<"S", "E", "C", "T", "O", "R", "_", "C", "O", "V", "1", "9">>, input.cols)) =>
     /\ out.ok /\ out.col = <<"S", "E", "C", "T", "O", "R", "_", "C", "O", "V", "1", "9">>
     /\ out.note = Note("dim_synonym", input.dim, out.col)
\* sector was not found, although SECTOR_COV19 is a column and SECTOR has it
\* as its first synonym.
C18_Witness ==
  /\ Called("_resolve_dim") /\ input.dim = <<"s", "e", "c", "t", "o", "r">>
  /\ InSeq(<<"S", "E", "C", "T", "O", "R", "_", "C", "O", "V", "1", "9">>, input.cols)
  /\ SYNONYMS(input.dim) = <<>> /\ SYNONYMS(Upper(input.dim))[1] = <<"S", "E", "C", "T", "O",
        "R", "_", "C", "O", "V", "1", "9">>
  /\ ~out.ok

\* The call builds a plan whose MES filter is a range {from, to} of two
\* integers; the plan selects something when the same plan without the
\* filter builds.
RangePlan ==
  /\ Called("build_sql_from_plan")
  /\ input.plan.filters.MES.kind = "dict"
  /\ input.plan.filters.MES.type \in {"range_ym", "none"}
  /\ input.plan.filters.MES.from.kind = "int" /\ input.plan.filters.MES.to.kind = "int"
Selects ==
  build_sql_from_plan([input.plan EXCEPT !.filters.MES = NoMes],
                      BaseColumns, input.catalog).ok
InsidePeriods(v) == 190001 <= v /\ v <= 299912
SelectList ==
  SubSeq(out.sql, Len(<<"S", "E", "L", "E", "C", "T">>) + 1,
         MinOf({i \in 1..Len(out.sql) : StartsAt(out.sql, i, <<"\n", "F", "R", "O", "M",
               " ">>)}) - 1)
AnswerBuilt == pc = "first"
\* The ORDER BY clause build_sql_from_plan writes for the pairs of a plan.
OrderByOf(ordering) ==
  <<"\n", "O", "R", "D", "E", "R", " ", "B", "Y", " ">> \o Join(<<",", " ">>,
        [k \in 1..Len(ordering) |->
                                  ordering[k].by \o <<" ">> \o ordering[k].dir]) \o <<"\n",
                                        "L", "I", "M", "I", "T", " ">>

\* C21: the statement built from a plan with at least one metric has an
\* ORDER BY clause: for a plan without ordering pairs one on its first metric,
\* descending, and for a plan with pairs the pairs in their order, each as
\* "<column> <direction>".
C21_OrderByDefaultsToFirstMetric ==
  (AnswerBuilt /\ Len(plan.metrics) > 0) =>
     IF Len(plan.ordering) = 0
     THEN \E i \in 1..Len(sql) :
            /\ StartsAt(sql, i, <<"\n", "O", "R", "D", "E", "R", " ", "B", "Y", " ">>)
            /\ \/ StartsAt(sql, i + 10, plan.metrics[1] \o <<" ", "D", "E", "S", "C", "\n">>)
               \/ \E j \in 1..Len(plan.metrics[1]) :
                     StartsAt(sql, i + 10, SubSeq(plan.metrics[1], 1, j) \o <<" ", "D", "E",
                           "S", "C", "\n">>)
     ELSE Contains(sql, OrderByOf(plan.ordering))
\* The LLM gave one ordering pair with a blank column: the plan handed to
\* build_sql_from_plan has a metric and no pair, and the statement built
\* from it has no ORDER BY clause at all.
C21_Witness ==
  /\ AnswerBuilt /\ Len(plan.metrics) > 0 /\ Len(plan.ordering) = 0
  /\ Len(input.data.ordering) = 1
  /\ ~Contains(sql, <<"O", "R", "D", "E", "R", " ", "B", "Y">>)

\* execute_sql has put the statement through ensure_limit.
LimitEnsured == ex.caller = "direct" /\ ex.step = "dry_run"
\* The statement was written with a LIMIT clause; it starts, after white
\* space, with SELECT COUNT(.
WrittenWithLimit(s) == \E i \in 1..Len(s) : StartsAtCI(s, i, <<" ", "L", "I", "M", "I", "T",
      " ", "1", "0">>)
StartsWithCount(s) ==
  MatchEnd(s, SkipSpaces(s, 1), <<LitCI(<<"S", "E", "L", "E", "C", "T">>), Ws, LitCI(<<"C",
        "O", "U", "N", "T", "(">>)>>, 1) # 0
HasWord(s, w) == Search(s, <<Wb, LitCI(w), Wb>>)
\* used is the statement s without its trailing white space and semicolons
\* and with one LIMIT clause of the default after it.
LimitAppendedOnce(s, used) ==
  /\ \E n \in 0..Len(s) :
       /\ used = SubSeq(s, 1, n) \o <<"\n", "L", "I", "M", "I", "T",
             " ">> \o IntToText(LIMIT_DEFAULT)
       /\ \A k \in (n + 1)..Len(s) : s[k] \in SpaceChars \cup {";"}
  /\ Cardinality({i \in 1..Len(used) : StartsAtCI(used, i, <<"L", "I", "M", "I", "T">>)}) = 1

\* C22 as stated: ensure_limit returns the statement unchanged when it has a
\* LIMIT clause or is a plain unconditional count (SELECT COUNT(...) without
\* WHERE and without GROUP BY); any other statement comes back with one
\* LIMIT clause of the default appended; ensure_limit changes nothing in its
\* own output.
C22_LimitUnlessPlainCount ==
  LimitEnsured =>
    /\ IF \/ WrittenWithLimit(ex.sql)
          \/ /\ StartsWithCount(ex.sql)
             /\ ~HasWord(ex.sql, <<"W", "H", "E", "R", "E">>) /\ ~HasWord(ex.sql, <<"G", "R",
                   "O", "U", "P">>)
       THEN ex.sql_used = ex.sql
       ELSE LimitAppendedOnce(ex.sql, ex.sql_used)
    /\ ensure_limit(ex.sql_used) = ex.sql_used
\* C22: ensure_limit returns the statement unchanged when it has a LIMIT
\* clause or starts with SELECT COUNT( and has no GROUP BY, with or without
\* a WHERE clause; any other statement comes back with one LIMIT clause of
\* the default appended; ensure_limit changes nothing in its own output.
C22_LimitUnlessCount ==
  LimitEnsured =>
    /\ IF \/ WrittenWithLimit(ex.sql)
          \/ StartsWithCount(ex.sql) /\ ~HasWord(ex.sql, <<"G", "R", "O", "U", "P">>)
       THEN ex.sql_used = ex.sql
       ELSE LimitAppendedOnce(ex.sql, ex.sql_used)
    /\ ensure_limit(ex.sql_used) = ex.sql_used
\* A statement that ended with a semicolon went to the dry-run with the
\* LIMIT clause in the place of the semicolon.
C22_Witness ==
  /\ LimitEnsured /\ ~StartsWithCount(ex.sql)
  /\ EndsWith(ex.sql, <<"=", " ", "1", ";">>)
  /\ EndsWith(ex.sql_used, <<"=", " ", "1", "\n", "L", "I", "M", "I", "T", " ">> \o IntToText(LIMIT_DEFAULT))

\* The equality, membership and pattern filters of the plan of the call.
FilterPairs == input.plan.filters.eq \o input.plan.filters.isin
                 \o input.plan.filters.like \o input.plan.filters.ilike
\* name is a column of the table, whatever its case.
IsColumn(name) == \E k \in 1..Len(BaseColumns) : Lower(name) = Lower(BaseColumns[k])
\* Where the operator of a filter fragment stands in a statement, and the
\* quoted column right before it.
OperatorAt(s, i) ==
  \E op \in {<<" ", "=", " ">>, <<" ", "I", "N", " ", "(">>, <<" ", "L", "I", "K", "E", " ",
        "'">>, <<")", " ", "L", "I", "K", "E", " ", "L", "O", "W", "E", "R",
        "(">>} : StartsAt(s, i, op)
ColumnBefore(s, i) ==
  \E n \in 1..(i - 3) :
     /\ s[i - 1] = Bq /\ s[i - n - 2] = Bq
     /\ IsColumn(SubSeq(s, i - n - 1, i - 2))

\* C23: in a statement built from a plan with eq / in / like / ilike filters
\* every fragment of these filters has a column of the table before its
\* operator, there is one fragment for every filter on a column of the
\* table, and the name of a filter on anything else is nowhere in the
\* statement.
C23_FilterColumnsExist ==
  (Called("build_sql_from_plan") /\ Len(FilterPairs) > 0) =>
     /\ out.ok
     /\ \A i \in 1..Len(out.sql) : OperatorAt(out.sql, i) => ColumnBefore(out.sql, i)
     /\ Cardinality({i \in 1..Len(out.sql) : OperatorAt(out.sql, i)})
          = Cardinality({k \in 1..Len(FilterPairs) : IsColumn(FilterPairs[k].col)})
     /\ \A k \in 1..Len(FilterPairs) :
          ~IsColumn(FilterPairs[k].col) => ~Contains(out.sql, FilterPairs[k].col)
\* A plan that filters on NOPE and on estado in all four ways was built: the
\* statement has the four fragments on estado and nothing of NOPE.
C23_Witness ==
  /\ Built /\ Len(FilterPairs) = 8
  /\ Contains(out.sql, <<"\n", "W", "H", "E", "R", "E", " ">>  \o <<Bq>> \o <<"e", "s", "t",
        "a", "d", "o">> \o <<Bq>> \o <<" ", "=", " ", "'", "O", "'", "'", "N", "e", "i", "l",
        "l", "'", " ", "A", "N", "D", " ">> \o <<Bq>>
                \o <<"e", "s", "t", "a", "d", "o">> \o <<Bq>> \o <<" ", "I", "N", " ", "(",
                      "1", ",", " ", "N", "U", "L", "L", ",", " ", "'", "a", "'", ")", " ",
                      "A", "N", "D", " ">> \o <<Bq>> \o <<"e", "s", "t", "a", "d",
                      "o">> \o <<Bq>>
                \o <<" ", "L", "I", "K", "E", " ", "'", "a", "%", "'", " ", "A", "N", "D", " ",
                      "L", "O", "W", "E", "R", "(">> \o <<Bq>> \o <<"e", "s", "t", "a", "d",
                      "o">> \o <<Bq>> \o <<")", " ", "L", "I", "K", "E", " ", "L", "O", "W",
                      "E", "R", "(", "'", "%", "b", "'", ")", "\n">>)
  /\ ~Contains(out.sql, <<"N", "O", "P", "E">>)

\* C24: a call of execute_sql that returns gives the rows the job yielded, up
\* to MAX_ROWS_RETURNED and never more, whatever the calls before it
\* returned; so do the result answer() keeps and the rows it returns.
C24_RowsCappedPerCall ==
  /\ ex.step = "returned" =>
        /\ ex.result.rows <= MAX_ROWS_RETURNED
        /\ ex.result.rows = IF ex.result.total_rows > MAX_ROWS_RETURNED
                            THEN MAX_ROWS_RETURNED ELSE ex.result.total_rows
  /\ res.rows <= MAX_ROWS_RETURNED
  /\ out.rows <= MAX_ROWS_RETURNED
\* The third call of execute_sql in one answer(), after a lookup that
\* returned its row: the job yielded more rows than the cap and the call
\* returned MAX_ROWS_RETURNED of them.
C24_Witness ==
  /\ ex.caller = "fallback" /\ ex.step = "returned"
  /\ \E k \in DOMAIN log : log[k].op = "job" /\ log[k].caller = "lookup"
  /\ ex.result.total_rows = MAX_ROWS_RETURNED + 1
  /\ ex.result.rows = MAX_ROWS_RETURNED

\* Orchestrator.plan gave answer() its plan.
Planned == pc \notin {"start", "call", "direct", "returned"} /\ input.asked /\ plan # NoPlan

\* C25: once answer() has its plan, a call with web_only, or with a plan that
\* has need_sql false and need_web true, is in the web branch: it has called
\* neither build_sql_from_plan nor execute_sql nor the warehouse, and what
\* it returns has no sql and no rows; every other call is on the SQL path:
\* it is never in the web branch, what it returns comes from the SQL path,
\* and build_sql_from_plan was called before its first execute_sql.
C25_WebBranchOrSqlPath ==
  Planned =>
    IF input.web_only \/ (~plan.need_sql /\ plan.need_web)
    THEN /\ pc \in {"web", "done"}
         /\ \A k \in DOMAIN log : log[k].op = "audit_log" /\ pc = "done"
         /\ ex = NoCall /\ sql = <<>>
         /\ pc = "done" => /\ out.ok /\ out.branch = "web"
                           /\ out.sql = <<>> /\ out.rows = 0
    ELSE /\ pc \in {"build", "first", "lookup", "fallback", "post", "raised", "done"}
         /\ pc # "build" => Events("get_table", "build") # {}
         /\ \A k \in DOMAIN log :
              log[k].op = "execute_sql" =>
                 /\ log[k].caller \in {"first", "lookup", "fallback"}
                 /\ \E j \in Events("get_table", "build") : j < k
         /\ pc = "done" => out.branch = "sql" /\ Events("execute_sql", "first") # {}
\* A call with web_only returned from the web branch, and so did a call
\* without it whose plan asked for the web and not for SQL.
C25_Witness ==
  /\ Planned /\ pc = "done" /\ out.branch = "web" /\ out.sql = <<>>
  /\ ~input.web_only /\ ~input.prefer_web /\ ~plan.need_sql /\ plan.need_web

\* load_document was called: its argument without the white space around
\* it, whether that is a gs:// URI and whether the URI names the bucket of
\* the loader; the path the argument gives inside the bucket.
Loading == input.fn = "load_document"
GivenName == Strip(input.blob_name)
IsGsUri == StartsAt(GivenName, 1, <<"g", "s", ":", "/", "/">>)
InLoaderBucket ==
  /\ StartsAt(GivenName, 1, <<"g", "s", ":", "/", "/">> \o input.bucket_name)
  /\ \/ Len(GivenName) = 5 + Len(input.bucket_name)
     \/ GivenName[6 + Len(input.bucket_name)] \in {"/", "?", "#"}
GivenPath ==
  LET from == IF IsGsUri THEN 6 + Len(input.bucket_name) ELSE 1
      upto == IF IsGsUri
              THEN MinOf({i \in from..Len(GivenName) : GivenName[i] \in {"?", "#"}}
                         \cup {Len(GivenName) + 1}) - 1
              ELSE Len(GivenName)
  IN SubSeq(GivenName, SkipIn(GivenName, from, {"/"}), upto)
UnderPrefix(name) ==
  \/ Len(input.default_prefix) = 0 \/ name = input.default_prefix
  \/ StartsAt(name, 1, input.default_prefix \o <<"/">>)

\* C26: load_document for a gs:// URI of another bucket than the loader's
\* raises ValueError with no blob looked up or downloaded; for any other
\* argument that gets as far as the bucket it looks up and downloads one
\* object name, which is under the default prefix: the given path itself
\* when that is under the prefix already, and the prefix, "/" and the given
\* path otherwise.
C26_WrongBucketRaisesElseOneName ==
  Loading =>
    /\ (IsGsUri /\ ~InLoaderBucket) =>
          /\ pc = "raised" /\ err.type = "ValueError"
          /\ err.what \in {"BucketMismatch", "MalformedUri"}
          /\ log = <<>>
    /\ (pc \in {"get_blob", "download", "returned"} \/ log # <<>>) =>
          /\ ~IsGsUri \/ InLoaderBucket
          /\ UnderPrefix(out.name)
          /\ out.name = IF UnderPrefix(GivenPath) THEN GivenPath
                        ELSE input.default_prefix \o <<"/">> \o GivenPath
          /\ \A k \in DOMAIN log : log[k].sql = out.name
          /\ Len(log) <= 2
\* The URI of the test, for a loader of demo-bucket with the prefix docs:
\* ValueError, and the bucket was not asked for anything.
C26_Witness ==
  /\ Loading /\ pc = "raised" /\ err.what = "BucketMismatch" /\ log = <<>>
  /\ input.blob_name = <<"g", "s", ":", "/", "/", "o", "t", "r", "o", "-", "b", "u", "c", "k",
        "e", "t", "/", "d", "o", "c", "s", "/", "s", "a", "m", "p", "l", "e", ".", "d", "o",
        "c", "x">>
  /\ input.bucket_name = <<"d", "e", "m", "o", "-", "b", "u", "c", "k", "e",
        "t">> /\ input.default_prefix = <<"d", "o", "c", "s">>

\* Where the clauses that close a statement after its WHERE clause start.
ClosingClauseAt(s, j) ==
  \E w \in {<<"G", "R", "O", "U", "P", " ", "B", "Y", " ">>, <<"O", "R", "D", "E", "R", " ",
        "B", "Y", " ">>, <<"L", "I", "M", "I", "T", " ">>} :
     StartsAt(s, j, w) /\ (j = 1 \/ s[j - 1] \in SpaceChars)

\* C27: when the statement holds no range of two six-digit periods and the
\* fallback appends, the clause for the period stands in the narrowed
\* statement before its GROUP BY, ORDER BY and LIMIT clauses.
C27_AppendedPeriodInsideWhere ==
  (Narrowed /\ ~HasMesRange(sql)) =>
     \A i \in 1..Len(ex.sql), j \in 1..Len(ex.sql) :
        (StartsAt(ex.sql, i, PeriodClause) /\ ClosingClauseAt(ex.sql, j)) => i < j
\* The statement of a plan without time filter was narrowed: it is the
\* statement as built, up to its LIMIT, and then WHERE and the period.
C27_Witness ==
  /\ Narrowed /\ ~HasMesRange(sql) /\ plan.filters.MES = NoMes
  /\ ~HasWord(sql, <<"W", "H", "E", "R", "E">>)
  /\ ex.sql = sql \o <<" ", "W", "H", "E", "R", "E",
        " ">> \o PeriodClause
  /\ EndsWith(sql, <<"\n", "L", "I", "M", "I", "T", " ">> \o IntToText(plan.limit))

\* The allowlist check on a statement that reads the table of a schema lookup.
TableAllowed(tbl) == validate_allowlist(<<"S", "E", "L", "E", "C", "T", " ", "1", " ", "F",
      "R", "O", "M", " ">> \o tbl) = NoError
\* The warehouse calls that name a table of the plan: the schema lookup names
\* the table, the dry-run and the query job carry the statement.
CallAllowed(ev) ==
  IF ev.op = "get_table" THEN TableAllowed(ev.sql) ELSE validate_allowlist(ev.sql) = NoError

\* C28: every schema lookup, dry-run and query job of answer() is for tables
\* of the allowlist.
C28_WarehouseCallsInsideAllowlist ==
  \A k \in DOMAIN log :
     log[k].op \in {"get_table", "dry_run", "dry_run_failed", "job"} => CallAllowed(log[k])
\* build_sql_from_plan looked up the schema of the table of another project,
\* which the plan named, and no allowlist check had run before.
C28_Witness ==
  /\ pc = "raised" /\ err.call = "first" /\ err.what = "DatasetNotAllowed"
  /\ \E k \in Events("get_table", "build") :
        /\ log[k].sql = BuildTable(plan)
        /\ ~TableAllowed(log[k].sql)
        /\ \A j \in 1..(k - 1) : log[j].op \notin {"get_table", "dry_run", "dry_run_failed",
              "job"}

\* What build_sql_from_plan returns for the plan answer() gave it.
BuiltForPlan == build_sql_from_plan(plan, BaseColumns, input.catalog)
\* The sort keys the statement can vouch for: its resolved dimensions, bare or
\* quoted, its metric expressions, whole, without alias or the alias alone,
\* and the columns of the schema.
SortKeys(b) ==
  {b.dims[k] : k \in DOMAIN b.dims} \cup {quote_ident(b.dims[k]) : k \in DOMAIN b.dims}
  \cup {b.metrics[k] : k \in DOMAIN b.metrics}
  \cup UNION {{SubSeq(b.metrics[k], 1,
        i - 1) : i \in {j \in 1..Len(b.metrics[k]) : StartsAtCI(b.metrics[k], j, <<" ", "A",
        "S", " ">>)}} : k \in DOMAIN b.metrics}
  \cup UNION {{SubSeq(b.metrics[k], i + 4,
        Len(b.metrics[k])) : i \in {j \in 1..Len(b.metrics[k]) : StartsAtCI(b.metrics[k], j,
        <<" ", "A", "S", " ">>)}} : k \in DOMAIN b.metrics}
  \cup {BaseColumns[k] : k \in DOMAIN BaseColumns}
DirectionOk(frag) == EndsWith(frag, <<" ", "A", "S", "C">>) \/ EndsWith(frag, <<" ", "D", "E",
      "S", "C">>)
KeyOk(frag, b) ==
  \E key \in SortKeys(b) : frag \in {key \o <<" ", "A", "S", "C">>, key \o <<" ", "D", "E",
        "S", "C">>}

\* C29: every ORDER BY fragment of the statement build_sql_from_plan returns
\* is a dimension, metric or column of the statement followed by ASC or DESC.
C29_OrderByKeysChecked ==
  AnswerBuilt =>
     /\ BuiltForPlan.sql = sql
     /\ \A k \in DOMAIN BuiltForPlan.order_by :
           DirectionOk(BuiltForPlan.order_by[k]) /\ KeyOk(BuiltForPlan.order_by[k], BuiltForPlan)
\* The plan sorted by NOPE, which is no column, dimension or metric: the
\* statement orders by it all the same.
C29_Witness ==
  /\ AnswerBuilt /\ BuiltForPlan.sql = sql
  /\ Contains(sql, <<"\n", "O", "R", "D", "E", "R", " ", "B", "Y", " ", "P", "R", "O", "V",
        "I", "N", "C", "I", "A", " ", "A", "S", "C", ",", " ", "N", "O", "P", "E", " ", "D",
        "E", "S", "C", "\n", "L", "I", "M", "I", "T", " ">>)
  /\ BuiltForPlan.order_by = <<<<"P", "R", "O", "V", "I", "N", "C", "I", "A", " ", "A", "S", "C">>,
        <<"N", "O", "P", "E", " ", "D", "E", "S", "C">>>>
  /\ ~InSeq(<<"N", "O", "P", "E">>, BaseColumns) /\ ~KeyOk(<<"N", "O", "P", "E", " ", "D", "E",
        "S", "C">>, BuiltForPlan)

\* answer() returned on the SQL path; the fallback statement was executed.
AnsweredSql == pc = "done" /\ out.branch = "sql"
FallbackRan == Events("execute_sql", "fallback") # {}
FallbackNotes(ns) == {k \in DOMAIN ns : ns[k].note = "costly_fallback"}
\* The last query job of the statements of answer() (not of the lookup of
\* the period): the one whose rows execute_sql handed back.
LastJob ==
  CHOOSE k \in Events("job", "first") \cup Events("job", "fallback") :
     \A j \in Events("job", "first") \cup Events("job", "fallback") : j <= k

\* C30: an answer on the SQL path returns the statement of the query job
\* its rows come from, which is the built statement, or the narrowed one
\* when the fallback ran; its notes hold the notes of the build, and a
\* fallback note, with the period of the narrowed statement, exactly when the
\* fallback statement was executed.
C30_ReturnsExecutedSqlAndNotes ==
  AnsweredSql =>
     /\ Events("job", "first") \cup Events("job", "fallback") # {}
     /\ out.sql = log[LastJob].sql
     /\ ex.step = "returned" /\ ex.sql = out.sql /\ out.rows = ex.result.rows
     /\ out.sql = IF FallbackRan THEN fallback_sql(BuiltForPlan.sql, last_mes.val)
                  ELSE BuiltForPlan.sql
     /\ log[LastJob].caller = IF FallbackRan THEN "fallback" ELSE "first"
     /\ \A k \in DOMAIN BuiltForPlan.notes : InSeq(BuiltForPlan.notes[k], out.notes)
     /\ FallbackRan <=> FallbackNotes(out.notes) # {}
     /\ \A k \in FallbackNotes(out.notes) :
           /\ last_mes.kind = "int" /\ out.notes[k].a = IntToText(last_mes.val)
           /\ Contains(out.sql, PeriodClause)
\* An answer after the fallback: the narrowed statement, which is not the
\* built one, is returned with the fallback note after the notes of the build.
C30_Witness ==
  /\ AnsweredSql /\ FallbackRan /\ out.sql # BuiltForPlan.sql
  /\ out.sql = log[LastJob].sql /\ Len(BuiltForPlan.notes) > 0
  /\ Cardinality(FallbackNotes(out.notes)) = 1
  /\ \A k \in FallbackNotes(out.notes) : k = Len(BuiltForPlan.notes) + 1

====
